---- MODULE Spec2Model ----
(***************************************************************************)
(* A model of nomt's page cache (nomt/src/page_cache.rs): the map of       *)
(* PageState entries, the InflightFetch rendezvous, the fetch pool, the    *)
(* update lock with the eviction pass, and commit.                         *)
(*                                                                         *)
(* Threads take one step per critical section of the code: a step is what  *)
(* a thread does while it holds one shard lock of the map (one entry() or  *)
(* get_mut() guard), one queue operation, one lock operation, or one call  *)
(* of the store.                                                           *)
(***************************************************************************)
EXTENDS Integers, Sequences, FiniteSets, TLC

\* ---------------------------------------------------------------- bounds
\* Page ids of the model are 1..NumIds.
NumIds == 2
\* Client threads, each with its own clone of the PageCache handle.
NumThreads == 2
\* Calls of prepopulate / cancel_prepopulate / retrieve_sync made in a run ...
MaxCalls == 4
\* ... and in a run that also has update phases.
MaxUpdateCalls == 3

PageIds == 1..NumIds
Threads == 1..NumThreads
\* The thread that brackets update phases (start_update_phase / drop).
Updater == 0
Procs == Threads \cup {Updater}

\* Calls of complete_and_notify made on the InflightFetches taken alone.
MaxCompletes == 3
\* Calls made on a PageData
MaxPageCalls == 3
\* Packets sent on the command channel
MaxPackets == 14

\* Buffers a cached page may hold in a commit (the named contents of `buffer`).
NumBufs == 5
\* (page_id, PageDiff) pairs given to one commit.
MaxDiffs == 2

\* ------------------------------------------------------ program constants
\* vec![0; 4096]: the bytes of a page
PAGE_SIZE == 4096
\* the bytes of a slot (index * 32)
SLOT_SIZE == 32
\* NODES_PER_PAGE = (1 << DEPTH + 1) - 2 with DEPTH = 6
NODES_PER_PAGE == 126
\* commit: const FULL_PAGE_THRESHOLD: usize = 32
FULL_PAGE_THRESHOLD == 32
\* try_perform_evict: std::cmp::max(128, evict_queue.len())
EvictMin == 128
\* Options::fetch_concurrency as the benchmark's command line sets it
FetchConcurrency == 1

\* Uint<256, 4>: the bits of the integers PageId::decode and encode work on
UINT_BITS == 256
\* the highest u8
U8_MAX == 255
\* DEPTH of core::page: a page id's limb has 6 bits (uint <<= 6)
DEPTH == 6
\* ArrayVec<u8, 42>: the limbs a PageId holds at most
MAX_LIMBS == 42
\* the bytes of the disambiguated representation ([u8; 32])
ID_BYTES == 32

VARIABLES
  cached,        \* Shared::cached : PageId -> Vacant | Inflight(f) | Cached(d)
  fetches,       \* every InflightFetch made so far: fetches[f] = its `page` (0 = None)
  pages,         \* every PageData made so far: pages[d] = [id, by, data]
  store,         \* the page store: store[id] = 0 (no page stored) or a buffer's name
  update_rwl,    \* Shared::update_rwl : [writer, readers]
  evict_queue,   \* Shared::evict_queue
  ev,            \* the cache advisor: the ids it tracks
  fetch_tp,      \* Shared::fetch_tp : the queue of submitted fetch tasks
  worker,        \* the pool's threads: [pc, id, f, entry]
  pc,            \* where each thread is
  th,            \* each thread's locals: [op, id, hint, f, entry, victim, left, ret]
  budget,        \* number of calls the run may still start
  loads,         \* loads[id] = load_page(id) calls since id was last evicted
  handed,        \* handed[id] = PageData handed out for id since id was last evicted
  panics,        \* the panic sites that were reached
  page_diffs,    \* commit's argument: the (page_id, PageDiff) pairs
  tx,            \* commit's Transaction: the instructions it was given
  ci,            \* the number of pairs commit's loop has gone through
  pid,           \* a PageId: its limbs
  pid2,          \* a second PageId
  encoded,       \* what encode() returned for pid, for pid2 and for the decoded id
  dec_arg,       \* the bytes PageId::decode was last given
  decoded,       \* what that call returned
  idx,           \* the last call of ChildPageIndex::new: [arg, ret]
  child,         \* what pid.child_page_id(idx) returned
  parent,        \* the last call of parent_page_id: [of, ret]
  iter,          \* a PageIdsIterator: [key, key_path, page_id]
  yielded,       \* its calls of next(): [n, item, ended, panic]
  pdata,         \* a PageData's data: the Option<Vec<u8>>, << >> for None
  pd_calls,      \* the calls made on it
  pd_aborted,    \* the last of them failed its assertion
  command_q,     \* the bounded command channel of start_io_worker: the packets queued,
                 \* each named by its number n and holding IoPacket(n)
  io_workers,    \* the nomt-io-worker threads, which run the same closure: how many
                 \* wait in recv(), have left the loop or have died, and
                 \* execute[n], how many hold packet n
  tx_alive,      \* a Sender of the command channel is still alive
  accepted,      \* the number of packets the command channel has accepted
  syscalls,      \* syscalls[n] = what the system calls made for packet n returned
  sent_io        \* sent_io[n] = the CompleteIo sent on packet n's completion_sender

\* the page ids at hand and the calls made on them
pvars == << pid, pid2, encoded, dec_arg, decoded >>

\* the child and parent calls, and the iterator
ivars == << idx, child, parent, iter, yielded >>

\* a PageData taken alone
dvars == << pdata, pd_calls, pd_aborted >>

\* the I/O worker pool
iovars == << command_q, io_workers, tx_alive, accepted, syscalls, sent_io >>

cvars == << page_diffs, tx, ci, pvars, ivars, dvars, iovars >>

vars == << cached, fetches, pages, store, update_rwl, evict_queue, ev, fetch_tp,
           worker, pc, th, budget, loads, handed, panics, page_diffs, tx, ci,
           pid, pid2, encoded, dec_arg, decoded, idx, child, parent, iter, yielded,
           pdata, pd_calls, pd_aborted,
           command_q, io_workers, tx_alive, accepted, syscalls, sent_io >>

\* const IO_THREADS, the worker threads of the pool
IO_THREADS == 16
\* const MAX_IN_FLIGHT, the capacity of the command channel
MAX_IN_FLIGHT == IO_THREADS

\* no bytes: encode or decode was not called
NoBytes == << >>
NotCalled == [res |-> "none", limbs |-> << >>]
NoneEncoded == [pid |-> NoBytes, pid2 |-> NoBytes, decoded |-> NoBytes]

\* ChildPageIndex::new, parent_page_id not called; no iterator made
NoIndex == [called |-> FALSE, arg |-> 0, ret |-> << >>]
NoParent == [called |-> FALSE, of |-> << >>, ret |-> << >>]
NoIter == [key |-> << >>, key_path |-> << >>, page_id |-> NotCalled]
NoneYielded == [n |-> 0, item |-> NotCalled, ended |-> FALSE, panic |-> FALSE]

\* only the root page id, no call made
InitIds ==
  /\ pid = << >>
  /\ pid2 = << >>
  /\ encoded = NoneEncoded
  /\ dec_arg = NoBytes
  /\ decoded = NotCalled
  /\ idx = NoIndex
  /\ child = NotCalled
  /\ parent = NoParent
  /\ iter = NoIter
  /\ yielded = NoneYielded
  /\ pdata = << >>
  /\ pd_calls = 0
  /\ pd_aborted = FALSE
  /\ command_q = << >>
  /\ io_workers = [recv |-> IO_THREADS, exited |-> 0, panicked |-> 0,
                   execute |-> [n \in 1..MaxPackets |-> 0]]
  /\ tx_alive = TRUE
  /\ accepted = 0
  /\ syscalls = [n \in 1..MaxPackets |-> << >>]
  /\ sent_io = [n \in 1..MaxPackets |-> << >>]

\* ------------------------------------------------------------- PageState
Vacant == [st |-> "Vacant", ref |-> 0]
Inflight(f) == [st |-> "Inflight", ref |-> f]
Cached(d) == [st |-> "Cached", ref |-> d]

\* PageData::pristine_empty as the cache's own paths make it; `by` names the
\* path ("hint_fresh" or "cancel")
pristine_empty(id, by) == [id |-> id, by |-> by, data |-> 0]
\* what load_page's result is wrapped in: pristine_empty for None,
\* pristine_with_data otherwise
loaded_page(id) == [id |-> id, by |-> "load", data |-> store[id]]

\* ---------------------------------------------------------- InflightFetch
\* a completion that stores its page whatever the cell holds
complete_and_notify_overwriting(fs, f, p) == [fs EXCEPT ![f] = p]

\* InflightFetch::complete_and_notify: the first completion wins
complete_and_notify(fs, f, p) ==
  IF fs[f] # 0 THEN fs ELSE [fs EXCEPT ![f] = p]

\* Arc::strong_count(&inflight): the map entry, the task closures (queued or
\* running) and the waiters that cloned it
strong_count(f) ==
    Cardinality({i \in PageIds : cached[i] = Inflight(f)})
  + Cardinality({k \in 1..Len(fetch_tp) : fetch_tp[k].f = f})
  + Cardinality({w \in DOMAIN worker : worker[w].pc # "idle" /\ worker[w].f = f})
  + Cardinality({t \in Threads : pc[t] = "wait" /\ th[t].f = f})

\* ------------------------------------------------------------ update lock
\* a try_read that looks at the readers only and overtakes a writer
try_read_ignoring_writer(rw) == rw.readers >= 0

\* RwLock::try_read: refused while a writer holds or awaits the lock
try_read(rw) == ~rw.writer

NoLocals == [op |-> "none", id |-> 0, hint |-> FALSE, f |-> 0, entry |-> 0,
             victim |-> 0, left |-> 0, ret |-> 0]

InitWith(n) ==
  /\ cached = [i \in PageIds |-> Vacant]
  /\ fetches = << >>
  /\ pages = << >>
  /\ store = [i \in PageIds |-> i % 2]
  /\ update_rwl = [writer |-> FALSE, readers |-> 0]
  /\ evict_queue = << >>
  /\ ev = {}
  /\ fetch_tp = << >>
  /\ worker = [w \in 1..FetchConcurrency |-> [pc |-> "idle", id |-> 0, f |-> 0, entry |-> 0]]
  /\ pc = [p \in Procs |-> "idle"]
  /\ th = [p \in Procs |-> NoLocals]
  /\ budget = n
  /\ loads = [i \in PageIds |-> 0]
  /\ handed = [i \in PageIds |-> {}]
  /\ panics = {}
  /\ page_diffs = << >>
  /\ tx = << >>
  /\ ci = 0
  /\ InitIds

Init == InitWith(MaxCalls)

\* ------------------------------------------------------------ small helpers
Range(s) == {s[k] : k \in 1..Len(s)}
Max(a, b) == IF a >= b THEN a ELSE b

\* where a thread goes on once its eviction pass is over: the updater is in
\* CommitGuard::drop, whose guard is released next, a client is in accessed()
\* and looks up the entry
after_evict(p) == IF p = Updater THEN "idle" ELSE "entry"

\* the update lock once p's eviction pass is over
after_evict_rwl(p, rw) == IF p = Updater THEN [rw EXCEPT !.writer = FALSE] ELSE rw

\* `return page` of retrieve_sync: the handle leaves the cache
return_page(t, d) ==
  /\ th' = [th EXCEPT ![t] = [NoLocals EXCEPT !.ret = d]]
  /\ handed' = [handed EXCEPT ![th[t].id] = @ \cup {d}]
  /\ pc' = [pc EXCEPT ![t] = "idle"]

\* ---------------------------------------------------------- cache advisor
\* CacheAdvisor::accessed(page_id, &evict_queue): the victims one access may
\* push, none or one id the advisor tracks other than the id accessed and,
\* by its contract, never an id that is Inflight
nominations(id) ==
  {<< >>} \cup {<<v>> : v \in {x \in ev \ {id} : cached[x].st # "Inflight"}}

\* try_perform_evict up to its first pop that finds an id: try_read() on the
\* update lock and the bound of the pass. A pass that is refused the lock, or
\* whose pops find the queue empty, is over in this step.
try_perform_evict(p, queue) ==
  IF try_read(update_rwl) /\ queue # << >>
    THEN /\ update_rwl' = [update_rwl EXCEPT !.readers = @ + 1]
         /\ pc' = [pc EXCEPT ![p] = "evict_pop"]
    ELSE /\ update_rwl' = after_evict_rwl(p, update_rwl)
         /\ pc' = [pc EXCEPT ![p] = after_evict(p)]

\* PageCache::accessed: feed the advisor, then try_perform_evict. It is the
\* first thing prepopulate and retrieve_sync do, so the step also starts the call.
accessed(t, op, id, hint) ==
  /\ pc[t] = "idle"
  /\ budget > 0
  /\ budget' = budget - 1
  /\ \E vs \in nominations(id) :
       /\ ev' = (ev \cup {id}) \ Range(vs)
       /\ evict_queue' = evict_queue \o vs
       /\ try_perform_evict(t, evict_queue \o vs)
       /\ th' = [th EXCEPT ![t] = [NoLocals EXCEPT !.op = op, !.id = id, !.hint = hint,
                                     !.left = Max(EvictMin, Len(evict_queue \o vs))]]
  /\ UNCHANGED << cached, fetches, pages, store, fetch_tp, worker,
                  loads, handed, panics >>
  /\ UNCHANGED cvars

prepopulate(t, id) == accessed(t, "prepopulate", id, FALSE)

retrieve_sync(t, id, hint_fresh) == accessed(t, "retrieve_sync", id, hint_fresh)

\* ------------------------------------------------------------ eviction pass
\* one evict_queue.pop() that finds an id; the pops that find the queue empty
\* change nothing, and the pass ends with the read lock released
evict_pop(p) ==
  /\ pc[p] = "evict_pop"
  /\ IF evict_queue # << >> /\ th[p].left > 0
       THEN /\ th' = [th EXCEPT ![p].victim = Head(evict_queue), ![p].left = @ - 1]
            /\ evict_queue' = Tail(evict_queue)
            /\ pc' = [pc EXCEPT ![p] = "evict_remove"]
            /\ UNCHANGED update_rwl
       ELSE /\ update_rwl' = after_evict_rwl(p, [update_rwl EXCEPT !.readers = @ - 1])
            /\ th' = [th EXCEPT ![p].left = 0]
            /\ pc' = [pc EXCEPT ![p] = after_evict(p)]
            /\ UNCHANGED evict_queue
  /\ UNCHANGED << cached, fetches, pages, store, ev, fetch_tp, worker,
                  budget, loads, handed, panics >>
  /\ UNCHANGED cvars

\* cached.remove(&page_id) of the popped id, and the match on what it held
evict_remove(p) ==
  /\ pc[p] = "evict_remove"
  /\ LET v == th[p].victim IN
     /\ cached' = [cached EXCEPT ![v] = Vacant]
     /\ IF cached[v] = Vacant
          THEN UNCHANGED << loads, handed >>
          ELSE /\ loads' = [loads EXCEPT ![v] = 0]
               /\ handed' = [handed EXCEPT ![v] = {}]
     /\ IF cached[v].st = "Inflight"
          THEN \* panic!(): the unwinding drops the read guard
               /\ panics' = panics \cup {"evict_inflight"}
               /\ update_rwl' = after_evict_rwl(p, [update_rwl EXCEPT !.readers = @ - 1])
               /\ th' = [th EXCEPT ![p].victim = 0, ![p].left = 0]
               /\ pc' = [pc EXCEPT ![p] = IF p = Updater THEN "idle" ELSE "panicked"]
          ELSE /\ th' = [th EXCEPT ![p].victim = 0]
               /\ pc' = [pc EXCEPT ![p] = "evict_pop"]
               /\ UNCHANGED << panics, update_rwl >>
  /\ UNCHANGED << fetches, pages, store, evict_queue, ev, fetch_tp, worker,
                  budget >>
  /\ UNCHANGED cvars

\* ---------------------------------------------------------------- prepopulate
\* prepopulate after accessed(): the entry() match, the insertion of a new
\* Inflight and the submission of its fetch task
prepopulate_entry(t) ==
  /\ pc[t] = "entry"
  /\ th[t].op = "prepopulate"
  /\ LET id == th[t].id
         f == Len(fetches) + 1
     IN IF cached[id] = Vacant
          THEN /\ fetches' = Append(fetches, 0)
               /\ cached' = [cached EXCEPT ![id] = Inflight(f)]
               /\ fetch_tp' = Append(fetch_tp, [id |-> id, f |-> f])
          ELSE UNCHANGED << fetches, cached, fetch_tp >>
  /\ th' = [th EXCEPT ![t] = NoLocals]
  /\ pc' = [pc EXCEPT ![t] = "idle"]
  /\ UNCHANGED << pages, store, update_rwl, evict_queue, ev, worker,
                  budget, loads, handed, panics >>
  /\ UNCHANGED cvars

\* the fetch task, start: a pool thread takes the task and reads the
\* reference count of its InflightFetch
task_start(w) ==
  /\ worker[w].pc = "idle"
  /\ fetch_tp # << >>
  /\ LET task == Head(fetch_tp) IN
     /\ fetch_tp' = Tail(fetch_tp)
     /\ worker' = [worker EXCEPT ![w] =
                     IF strong_count(task.f) = 1
                       THEN [pc |-> "idle", id |-> 0, f |-> 0, entry |-> 0]
                       ELSE [pc |-> "load", id |-> task.id, f |-> task.f, entry |-> 0]]
  /\ UNCHANGED << cached, fetches, pages, store, update_rwl, evict_queue, ev, pc, th,
                  budget, loads, handed, panics >>
  /\ UNCHANGED cvars

\* the fetch task, store.load_page(page_id) and Arc::new(entry)
task_load(w) ==
  /\ worker[w].pc = "load"
  /\ loads' = [loads EXCEPT ![worker[w].id] = @ + 1]
  /\ pages' = Append(pages, loaded_page(worker[w].id))
  /\ worker' = [worker EXCEPT ![w].pc = "publish", ![w].entry = Len(pages) + 1]
  /\ UNCHANGED << cached, fetches, store, update_rwl, evict_queue, ev, fetch_tp, pc, th,
                  budget, handed, panics >>
  /\ UNCHANGED cvars

\* the fetch task, publication: get_mut(&page_id).unwrap() and what follows
task_publish(w) ==
  /\ worker[w].pc = "publish"
  /\ LET id == worker[w].id
         e == cached[id]
     IN CASE e = Vacant ->
               \* unwrap() of None: the task panics
               /\ panics' = panics \cup {"task_unwrap"}
               /\ UNCHANGED << cached, fetches >>
          [] e.st = "Cached" ->
               UNCHANGED << cached, fetches, panics >>
          [] e.st = "Inflight" ->
               /\ cached' = [cached EXCEPT ![id] = Cached(worker[w].entry)]
               /\ fetches' = complete_and_notify(fetches, e.ref, worker[w].entry)
               /\ UNCHANGED panics
  /\ worker' = [worker EXCEPT ![w] = [pc |-> "idle", id |-> 0, f |-> 0, entry |-> 0]]
  /\ UNCHANGED << pages, store, update_rwl, evict_queue, ev, fetch_tp, pc, th,
                  budget, loads, handed >>
  /\ UNCHANGED cvars

\* ---------------------------------------------------------- cancel_prepopulate
\* a cancel that notifies the waiters and leaves the entry Inflight
cancel_prepopulate_keeps_inflight(t, id) ==
  /\ pc[t] = "idle"
  /\ budget > 0
  /\ budget' = budget - 1
  /\ th' = [th EXCEPT ![t] = NoLocals]
  /\ IF cached[id].st = "Inflight"
       THEN /\ pages' = Append(pages, pristine_empty(id, "cancel"))
            /\ fetches' = complete_and_notify(fetches, cached[id].ref, Len(pages) + 1)
       ELSE UNCHANGED << pages, fetches >>
  /\ UNCHANGED << cached, store, update_rwl, evict_queue, ev, fetch_tp, worker, pc,
                  loads, handed, panics >>
  /\ UNCHANGED cvars

\* PageCache::cancel_prepopulate, under the entry's get_mut() guard
cancel_prepopulate(t, id) ==
  /\ pc[t] = "idle"
  /\ budget > 0
  /\ budget' = budget - 1
  /\ th' = [th EXCEPT ![t] = NoLocals]
  /\ IF cached[id].st = "Inflight"
       THEN /\ pages' = Append(pages, pristine_empty(id, "cancel"))
            /\ fetches' = complete_and_notify(fetches, cached[id].ref, Len(pages) + 1)
            /\ cached' = [cached EXCEPT ![id] = Cached(Len(pages) + 1)]
       ELSE UNCHANGED << pages, fetches, cached >>
  /\ UNCHANGED << store, update_rwl, evict_queue, ev, fetch_tp, worker, pc,
                  loads, handed, panics >>
  /\ UNCHANGED cvars

\* --------------------------------------------------------------- retrieve_sync
\* an entry() match that forgets hint_fresh when the entry is vacant
retrieve_sync_entry_ignoring_hint(t) ==
  /\ pc[t] = "entry"
  /\ th[t].op = "retrieve_sync"
  /\ LET id == th[t].id
         e == cached[id]
         d == Len(pages) + 1
         f == Len(fetches) + 1
     IN CASE e.st = "Cached" ->
               /\ return_page(t, e.ref)
               /\ UNCHANGED << cached, fetches, pages >>
          [] e.st = "Inflight" /\ th[t].hint ->
               /\ pages' = Append(pages, pristine_empty(id, "hint_fresh"))
               /\ fetches' = complete_and_notify(fetches, e.ref, d)
               /\ cached' = [cached EXCEPT ![id] = Cached(d)]
               /\ return_page(t, d)
          [] e.st = "Inflight" /\ ~th[t].hint ->
               /\ th' = [th EXCEPT ![t].f = e.ref]
               /\ pc' = [pc EXCEPT ![t] = "wait"]
               /\ UNCHANGED << cached, fetches, pages, handed >>
          [] e = Vacant ->
               /\ fetches' = Append(fetches, 0)
               /\ cached' = [cached EXCEPT ![id] = Inflight(f)]
               /\ th' = [th EXCEPT ![t].f = f]
               /\ pc' = [pc EXCEPT ![t] = "load"]
               /\ UNCHANGED << pages, handed >>
  /\ UNCHANGED << store, update_rwl, evict_queue, ev, fetch_tp, worker,
                  budget, loads, panics >>
  /\ UNCHANGED cvars

\* retrieve_sync after accessed(): the entry() match
retrieve_sync_entry(t) ==
  /\ pc[t] = "entry"
  /\ th[t].op = "retrieve_sync"
  /\ LET id == th[t].id
         e == cached[id]
         d == Len(pages) + 1
         f == Len(fetches) + 1
     IN CASE e.st = "Cached" ->
               /\ return_page(t, e.ref)
               /\ UNCHANGED << cached, fetches, pages >>
          [] e.st = "Inflight" /\ th[t].hint ->
               \* pre-empt stale fetch
               /\ pages' = Append(pages, pristine_empty(id, "hint_fresh"))
               /\ fetches' = complete_and_notify(fetches, e.ref, d)
               /\ cached' = [cached EXCEPT ![id] = Cached(d)]
               /\ return_page(t, d)
          [] e.st = "Inflight" /\ ~th[t].hint ->
               /\ th' = [th EXCEPT ![t].f = e.ref]
               /\ pc' = [pc EXCEPT ![t] = "wait"]
               /\ UNCHANGED << cached, fetches, pages, handed >>
          [] e = Vacant /\ th[t].hint ->
               /\ pages' = Append(pages, pristine_empty(id, "hint_fresh"))
               /\ cached' = [cached EXCEPT ![id] = Cached(d)]
               /\ return_page(t, d)
               /\ UNCHANGED fetches
          [] e = Vacant /\ ~th[t].hint ->
               /\ fetches' = Append(fetches, 0)
               /\ cached' = [cached EXCEPT ![id] = Inflight(f)]
               /\ th' = [th EXCEPT ![t].f = f]
               /\ pc' = [pc EXCEPT ![t] = "load"]
               /\ UNCHANGED << pages, handed >>
  /\ UNCHANGED << store, update_rwl, evict_queue, ev, fetch_tp, worker,
                  budget, loads, panics >>
  /\ UNCHANGED cvars

\* InflightFetch::wait: returns once the page is there
wait(t) ==
  /\ pc[t] = "wait"
  /\ fetches[th[t].f] # 0
  /\ return_page(t, fetches[th[t].f])
  /\ UNCHANGED << cached, fetches, pages, store, update_rwl, evict_queue, ev, fetch_tp,
                  worker, budget, loads, panics >>
  /\ UNCHANGED cvars

\* the loader path: store.load_page(page_id) and Arc::new(entry)
retrieve_sync_load(t) ==
  /\ pc[t] = "load"
  /\ loads' = [loads EXCEPT ![th[t].id] = @ + 1]
  /\ pages' = Append(pages, loaded_page(th[t].id))
  /\ th' = [th EXCEPT ![t].entry = Len(pages) + 1]
  /\ pc' = [pc EXCEPT ![t] = "publish"]
  /\ UNCHANGED << cached, fetches, store, update_rwl, evict_queue, ev, fetch_tp, worker,
                  budget, handed, panics >>
  /\ UNCHANGED cvars

\* the loader path: get_mut(&page_id).unwrap() and what follows
retrieve_sync_publish(t) ==
  /\ pc[t] = "publish"
  /\ LET id == th[t].id
         e == cached[id]
     IN CASE e = Vacant ->
               \* unwrap() of None: the caller panics
               /\ panics' = panics \cup {"loader_unwrap"}
               /\ pc' = [pc EXCEPT ![t] = "panicked"]
               /\ UNCHANGED << cached, fetches, th, handed >>
          [] e.st = "Cached" ->
               /\ return_page(t, e.ref)
               /\ UNCHANGED << cached, fetches, panics >>
          [] e.st = "Inflight" ->
               /\ cached' = [cached EXCEPT ![id] = Cached(th[t].entry)]
               /\ fetches' = complete_and_notify(fetches, e.ref, th[t].entry)
               /\ return_page(t, th[t].entry)
               /\ UNCHANGED panics
  /\ UNCHANGED << pages, store, update_rwl, evict_queue, ev, fetch_tp, worker,
                  budget, loads >>
  /\ UNCHANGED cvars

\* ----------------------------------------------------------------- update phase
\* start_update_phase: update_rwl.write() takes the free lock at once, or
\* announces the writer ...
start_update_phase ==
  /\ pc[Updater] = "idle"
  /\ ~update_rwl.writer
  /\ update_rwl' = [update_rwl EXCEPT !.writer = TRUE]
  /\ pc' = [pc EXCEPT ![Updater] = IF update_rwl.readers = 0 THEN "held" ELSE "write_wait"]
  /\ UNCHANGED << cached, fetches, pages, store, evict_queue, ev, fetch_tp, worker, th,
                  budget, loads, handed, panics >>
  /\ UNCHANGED cvars

\* ... and returns the guard once the readers have left
write_acquired ==
  /\ pc[Updater] = "write_wait"
  /\ update_rwl.readers = 0
  /\ pc' = [pc EXCEPT ![Updater] = "held"]
  /\ UNCHANGED << cached, fetches, pages, store, update_rwl, evict_queue, ev, fetch_tp,
                  worker, th, budget, loads, handed, panics >>
  /\ UNCHANGED cvars

\* CommitGuard::drop: try_perform_evict() runs first, with the guard's
\* update_rwl field still alive; the field is dropped, and the write lock
\* released, after the pass
CommitGuard_drop ==
  /\ pc[Updater] = "held"
  /\ try_perform_evict(Updater, evict_queue)
  /\ th' = [th EXCEPT ![Updater].left = Max(EvictMin, Len(evict_queue))]
  /\ UNCHANGED << cached, fetches, pages, store, evict_queue, ev, fetch_tp, worker,
                  budget, loads, handed, panics >>
  /\ UNCHANGED cvars

\* ------------------------------------------------------------------- commit
\* LEAF_META_BITFIELD_SLOT: the slot of the leaf bitfield
LEAF_META_BITFIELD_SLOT == NODES_PER_PAGE

\* The contents a page's Vec<u8> takes in a commit, by name; byte o of the
\* buffer is buffer(k)[o]. 1: no byte is zero. 2: all zero. 3: slots 0 and 1
\* zero, the rest not. 4 and 5: of the first 64 bytes only byte 31, only byte
\* 63, is not zero.
buffer(k) ==
  [o \in 0..(PAGE_SIZE - 1) |->
     LET fill == (o % 251) + 1 IN
     CASE k = 1 -> fill
       [] k = 2 -> 0
       [] k = 3 -> IF o < 2 * SLOT_SIZE THEN 0 ELSE fill
       [] k = 4 -> IF o = SLOT_SIZE - 1 THEN 1 ELSE IF o < 2 * SLOT_SIZE THEN 0 ELSE fill
       [] k = 5 -> IF o = 2 * SLOT_SIZE - 1 THEN 1 ELSE IF o < 2 * SLOT_SIZE THEN 0 ELSE fill
       [] OTHER -> (o + k) % 256]

\* page_is_empty: &page[..64] == [0u8; 64]
page_is_empty(page) == \A o \in 0..63 : page[o] = 0

\* PageDiff::set_changed on the set of the bits that are set; the assertion
\* refuses a slot above LEAF_META_BITFIELD_SLOT
set_changed(diff, slot_index) ==
  IF slot_index <= LEAF_META_BITFIELD_SLOT THEN diff \cup {slot_index} ELSE diff

\* a PageDiff::default() on which set_changed was called for every slot of `slots`
RECURSIVE changed(_)
changed(slots) ==
  IF slots = {} THEN {}
  ELSE LET x == CHOOSE y \in slots : TRUE IN set_changed(changed(slots \ {x}), x)

\* updated_slots.count_ones()
count_ones(diff) == Cardinality(diff)

\* a delta whose records are read at slot_index instead of slot_index * 32
RECURSIVE tagged_nodes_unscaled(_, _)
tagged_nodes_unscaled(page, diff) ==
  IF diff = {} THEN << >>
  ELSE LET slot_index == CHOOSE x \in diff : \A y \in diff : x <= y IN
       << slot_index % 256 >>
         \o [i \in 1..SLOT_SIZE |-> page[slot_index + i - 1]]
         \o tagged_nodes_unscaled(page, diff \ {slot_index})

\* the loop over updated_slots.iter_ones(): the slot index as one byte, then
\* &page_data[slot_index * 32..][..32], lowest slot first
RECURSIVE tagged_nodes(_, _)
tagged_nodes(page, diff) ==
  IF diff = {} THEN << >>
  ELSE LET slot_index == CHOOSE x \in diff : \A y \in diff : x <= y IN
       << slot_index % 256 >>
         \o [i \in 1..SLOT_SIZE |-> page[slot_index * SLOT_SIZE + i - 1]]
         \o tagged_nodes(page, diff \ {slot_index})

\* a dispatch that writes the whole page only above the threshold
commit_cached_above_threshold(k, page_id, page_diff, data) ==
  IF data = 0 \/ page_is_empty(buffer(data))
    THEN [k |-> k, op |-> "delete_page", id |-> page_id, data |-> << >>]
  ELSE IF count_ones(page_diff) > FULL_PAGE_THRESHOLD
    THEN [k |-> k, op |-> "write_page", id |-> page_id,
          data |-> [i \in 1..PAGE_SIZE |-> buffer(data)[i - 1]]]
  ELSE [k |-> k, op |-> "write_page_nodes", id |-> page_id,
        data |-> tagged_nodes(buffer(data), page_diff)]

\* the body of commit's loop for a pair whose entry is Cached and holds `data`
\* (0: the Option is None): the instruction the transaction is given
commit_cached(k, page_id, page_diff, data) ==
  IF data = 0 \/ page_is_empty(buffer(data))
    THEN [k |-> k, op |-> "delete_page", id |-> page_id, data |-> << >>]
  ELSE IF count_ones(page_diff) >= FULL_PAGE_THRESHOLD
    THEN [k |-> k, op |-> "write_page", id |-> page_id,
          data |-> [i \in 1..PAGE_SIZE |-> buffer(data)[i - 1]]]
  ELSE [k |-> k, op |-> "write_page_nodes", id |-> page_id,
        data |-> tagged_nodes(buffer(data), page_diff)]

\* a loop that deletes the page of an id the map has no entry for
commit_entry_delete_absent(k, page_id, page_diff, e) ==
  IF e.st = "Cached"
    THEN << commit_cached(k, page_id, page_diff, pages[e.ref].data) >>
  ELSE IF e.st = "Vacant"
    THEN << [k |-> k, op |-> "delete_page", id |-> page_id, data |-> << >>] >>
  ELSE << >>

\* the instructions commit's loop issues for pair k, given the entry the
\* lookup finds: none when the map has no entry
commit_entry(k, page_id, page_diff, e) ==
  IF e.st = "Cached"
    THEN << commit_cached(k, page_id, page_diff, pages[e.ref].data) >>
    ELSE << >>

\* a loop that passes over an Inflight entry instead of aborting
commit_skipping_inflight ==
  /\ ci < Len(page_diffs)
  /\ "commit_inflight" \notin panics
  /\ LET k == ci + 1
         page_id == page_diffs[k].id
         e == cached[page_id]
     IN /\ tx' = tx \o (IF e.st = "Inflight"
                           THEN << [k |-> k, op |-> "write_page_nodes", id |-> page_id,
                                    data |-> << >>] >>
                           ELSE commit_entry(k, page_id, page_diffs[k].diff, e))
        /\ ci' = k
        /\ UNCHANGED panics
  /\ UNCHANGED << cached, fetches, pages, store, update_rwl, evict_queue, ev, fetch_tp,
                  worker, pc, th, budget, loads, handed, page_diffs >>
  /\ UNCHANGED << pvars, ivars, dvars, iovars >>

\* one turn of commit's loop
commit ==
  /\ ci < Len(page_diffs)
  /\ "commit_inflight" \notin panics
  /\ LET k == ci + 1
         page_id == page_diffs[k].id
         e == cached[page_id]
     IN IF e.st = "Inflight"
          THEN \* panic!("dirty page is inflight")
               /\ panics' = panics \cup {"commit_inflight"}
               /\ UNCHANGED << tx, ci >>
          ELSE /\ tx' = tx \o commit_entry(k, page_id, page_diffs[k].diff, e)
               /\ ci' = k
               /\ UNCHANGED panics
  /\ UNCHANGED << cached, fetches, pages, store, update_rwl, evict_queue, ev, fetch_tp,
                  worker, pc, th, budget, loads, handed, page_diffs >>
  /\ UNCHANGED << pvars, ivars, dvars, iovars >>

\* the PageDiffs a commit is given: the slots 0..n-1 for the sizes around
\* the threshold, the two slots of the spec's scenario, the leaf bitfield's
\* slot alone and with 31 others
DiffChoices ==
  { changed(0..(n - 1)) : n \in {0, 31, 32, 40} }
    \cup { changed({3, 7}), changed({LEAF_META_BITFIELD_SLOT}),
           changed((0..30) \cup {LEAF_META_BITFIELD_SLOT}) }

\* what an entry of the map may be when commit runs: Vacant, Inflight, or
\* Cached with a page whose Option is None (data 0) or Some(buffer(data))
EntryChoices ==
  {[st |-> "Vacant", data |-> 0], [st |-> "Inflight", data |-> 0]}
    \cup {[st |-> "Cached", data |-> k] : k \in 0..NumBufs}

\* the PageData (of a Cached entry) or InflightFetch (of an Inflight one) of
\* id is the n-th made, in the order of the ids
nth_of(kind, id) ==
  Cardinality({j \in 1..id : kind[j].st = kind[id].st})

\* a cache as commit may find it, and the pairs it is given
InitCommit ==
  \E kind \in [PageIds -> EntryChoices] :
    /\ cached = [i \in PageIds |-> [st |-> kind[i].st,
                                    ref |-> IF kind[i].st = "Vacant" THEN 0
                                            ELSE nth_of(kind, i)]]
    /\ pages = [n \in 1..Cardinality({i \in PageIds : kind[i].st = "Cached"}) |->
                  LET i == CHOOSE j \in PageIds :
                             kind[j].st = "Cached" /\ nth_of(kind, j) = n
                  IN [id |-> i, by |-> IF kind[i].data = 0 THEN "hint_fresh" ELSE "load",
                      data |-> kind[i].data]]
    /\ fetches = [n \in 1..Cardinality({i \in PageIds : kind[i].st = "Inflight"}) |-> 0]
    /\ store = [i \in PageIds |-> i % 2]
    /\ update_rwl = [writer |-> FALSE, readers |-> 0]
    /\ evict_queue = << >>
    /\ ev = {}
    /\ fetch_tp = << >>
    /\ worker = [w \in 1..FetchConcurrency |-> [pc |-> "idle", id |-> 0, f |-> 0, entry |-> 0]]
    /\ pc = [p \in Procs |-> "idle"]
    /\ th = [p \in Procs |-> NoLocals]
    /\ budget = 0
    /\ loads = [i \in PageIds |-> 0]
    /\ handed = [i \in PageIds |-> {}]
    /\ panics = {}
    /\ \E n \in 1..MaxDiffs :
         page_diffs \in [1..n -> [id : PageIds, diff : DiffChoices]]
    /\ tx = << >>
    /\ ci = 0
    /\ InitIds

\* ------------------------------------------------- InflightFetch taken alone
\* two InflightFetches and two Pages, outside the map: any holder of the Arc
\* may complete a fetch with any page, any thread may wait on it
InitFetch ==
  /\ cached = [i \in PageIds |-> Vacant]
  /\ fetches = << 0, 0 >>
  /\ pages = << [id |-> 1, by |-> "cancel", data |-> 0], [id |-> 1, by |-> "load", data |-> 1] >>
  /\ store = [i \in PageIds |-> i % 2]
  /\ update_rwl = [writer |-> FALSE, readers |-> 0]
  /\ evict_queue = << >>
  /\ ev = {}
  /\ fetch_tp = << >>
  /\ worker = [w \in 1..FetchConcurrency |-> [pc |-> "idle", id |-> 0, f |-> 0, entry |-> 0]]
  /\ pc = [p \in Procs |-> "idle"]
  /\ th = [p \in Procs |-> NoLocals]
  /\ budget = MaxCompletes
  /\ loads = [i \in PageIds |-> 0]
  /\ handed = [i \in PageIds |-> {}]
  /\ panics = {}
  /\ page_diffs = << >>
  /\ tx = << >>
  /\ ci = 0
  /\ InitIds

\* a call of inflight.complete_and_notify(p)
fetch_complete(f, p) ==
  /\ budget > 0
  /\ budget' = budget - 1
  /\ fetches' = complete_and_notify(fetches, f, p)
  /\ UNCHANGED << cached, pages, store, update_rwl, evict_queue, ev, fetch_tp, worker,
                  pc, th, loads, handed, panics >>
  /\ UNCHANGED cvars

\* a call of inflight.wait() begins: the thread holds a clone of the Arc
fetch_wait(t, f) ==
  /\ pc[t] = "idle"
  /\ pc' = [pc EXCEPT ![t] = "wait"]
  /\ th' = [th EXCEPT ![t] = [NoLocals EXCEPT !.op = "retrieve_sync", !.id = 1, !.f = f]]
  /\ UNCHANGED << cached, fetches, pages, store, update_rwl, evict_queue, ev, fetch_tp,
                  worker, budget, loads, handed, panics >>
  /\ UNCHANGED cvars

\* ------------------------------------------------------------ Uint<256, 4>
\* A 256-bit integer is held as the sequence of its base-64 digits, the lowest
\* first; the top digit (the 43rd) has the 4 bits 252..255.
SEXTET == 2 ^ DEPTH
NUM_DIGITS == UINT_BITS \div DEPTH + 1
TOP_MOD == 2 ^ (UINT_BITS % DEPTH)

\* bit j (0 the lowest) of a big-endian [u8; 32], given as a sequence
be_bit(bytes, j) ==
  IF j < UINT_BITS THEN (bytes[ID_BYTES - (j \div 8)] \div (2 ^ (j % 8))) % 2 ELSE 0

\* bit j of a Uint
uint_bit(u, j) == (u[j \div DEPTH + 1] \div (2 ^ (j % DEPTH))) % 2

\* the modulus of digit i: the top digit ends at bit 255
digit_mod(i) == IF i = NUM_DIGITS THEN TOP_MOD ELSE SEXTET

\* Uint::from_be_bytes
from_be_bytes(bytes) ==
  SubSeq([i \in 1..NUM_DIGITS |->
            LET b(k) == be_bit(bytes, DEPTH * (i - 1) + k)
            IN b(0) + 2 * b(1) + 4 * b(2) + 8 * b(3) + 16 * b(4) + 32 * b(5)],
         1, NUM_DIGITS)

\* Uint::to_be_bytes::<32>
to_be_bytes(u) ==
  SubSeq([k \in 1..ID_BYTES |->
            LET b(n) == uint_bit(u, 8 * (ID_BYTES - k) + n)
            IN b(0) + 2 * b(1) + 4 * b(2) + 8 * b(3) + 16 * b(4) + 32 * b(5)
                 + 64 * b(6) + 128 * b(7)],
         1, ID_BYTES)

\* uint += Uint::from(n) for n <= 64, wrapping at 2^256: the carry out of
\* the lowest digit runs through the digits that are 63
uint_add(u, n) ==
  LET carry(i) == IF i = 1 THEN n
                  ELSE IF u[1] + n >= SEXTET /\ \A j \in 2..(i - 1) : u[j] = SEXTET - 1
                         THEN 1 ELSE 0
  IN SubSeq([i \in 1..NUM_DIGITS |-> (u[i] + carry(i)) % digit_mod(i)], 1, NUM_DIGITS)

\* uint -= Uint::from(1), wrapping at 0: the borrow runs through the digits
\* that are 0
uint_sub_one(u) ==
  LET borrow(i) == IF \A j \in 1..(i - 1) : u[j] = 0 THEN 1 ELSE 0
  IN SubSeq([i \in 1..NUM_DIGITS |-> (u[i] + digit_mod(i) - borrow(i)) % digit_mod(i)],
            1, NUM_DIGITS)

\* uint <<= 6: the bits shifted beyond bit 255 are lost
uint_shl(u) ==
  << 0 >> \o SubSeq(u, 1, NUM_DIGITS - 2) \o << u[NUM_DIGITS - 1] % TOP_MOD >>

\* uint >>= DEPTH
uint_shr(u) == Tail(u) \o << 0 >>

\* uint > other
uint_gt(u, v) ==
  \E i \in 1..NUM_DIGITS : u[i] > v[i] /\ \A j \in (i + 1)..NUM_DIGITS : u[j] = v[j]

\* Uint::leading_zeros
leading_zeros(u) ==
  IF \A i \in 1..NUM_DIGITS : u[i] = 0 THEN UINT_BITS
  ELSE LET i == CHOOSE k \in 1..NUM_DIGITS :
                  u[k] # 0 /\ \A j \in (k + 1)..NUM_DIGITS : u[j] = 0
           n == CHOOSE m \in 1..DEPTH : 2 ^ (m - 1) <= u[i] /\ u[i] < 2 ^ m
       IN UINT_BITS - (DEPTH * (i - 1) + n)

\* the lowest byte, read where the highest is meant
uint_byte_low(u) == u[1] + SEXTET * (u[2] % 4)

\* uint.byte(31): the highest byte, the bits 248..255
uint_byte31(u) == TOP_MOD * u[NUM_DIGITS] + u[NUM_DIGITS - 1] \div 4

\* uint.byte(0): the lowest byte
uint_byte0(u) == u[1] + SEXTET * (u[2] % 4)

\* ------------------------------------------------------------------ PageId
\* const HIGHEST_ENCODED_42
HIGHEST_ENCODED_42 ==
  from_be_bytes(<< 16, 65, 4, 16, 65, 4, 16, 65, 4, 16, 65, 4, 16, 65, 4, 16, 65, 4, 16, 65,
                   4, 16, 65, 4, 16, 65, 4, 16, 65, 4, 16, 64 >>)

\* ROOT_PAGE_ID: no limbs
ROOT_PAGE_ID == << >>
\* MAX_CHILD_INDEX = (1 << DEPTH) - 1
MAX_CHILD_INDEX == 2 ^ DEPTH - 1

\* the results of decode and of child_page_id
Ok(limbs) == [res |-> "Ok", limbs |-> limbs]
InvalidPageIdBytes == [res |-> "InvalidPageIdBytes", limbs |-> << >>]
PageIdOverflow == [res |-> "PageIdOverflow", limbs |-> << >>]
\* ArrayVec::push on a full vector panics
CapacityPanic == [res |-> "panic", limbs |-> << >>]

\* the limbs left in the order they were pushed
reverse_not(l) == l

\* limbs.reverse()
RECURSIVE reverse(_)
reverse(l) == IF l = << >> THEN << >> ELSE Append(reverse(Tail(l)), Head(l))

\* the loop of decode, n turns: subtract 1, push the lowest sextet, shift;
\* a push on a full ArrayVec panics
RECURSIVE decode_loop(_, _, _)
decode_loop(uint, n, limbs) ==
  IF n = 0 THEN [uint |-> uint, limbs |-> limbs, full |-> FALSE]
  ELSE IF Len(limbs) >= MAX_LIMBS THEN [uint |-> uint, limbs |-> limbs, full |-> TRUE]
  ELSE LET u1 == uint_sub_one(uint) IN
       decode_loop(uint_shr(u1), n - 1, Append(limbs, u1[1] % SEXTET))

\* a decode that takes every 32 bytes for valid ones
decode_any_bytes(bytes) ==
  LET uint == from_be_bytes(bytes)
      bit_count == UINT_BITS - leading_zeros(uint)
      sextets == (bit_count + 5) \div 6
  IN IF bit_count = 0 THEN Ok(ROOT_PAGE_ID)
     ELSE LET r == decode_loop(uint, sextets - 1, << >>)
          IN IF r.full THEN CapacityPanic
             ELSE IF uint_byte0(r.uint) = 0 THEN Ok(reverse(r.limbs))
             ELSE IF Len(r.limbs) >= MAX_LIMBS THEN CapacityPanic
             ELSE Ok(reverse(Append(r.limbs, uint_byte0(uint_sub_one(r.uint)))))

\* PageId::decode
decode(bytes) ==
  LET uint == from_be_bytes(bytes) IN
  IF uint_gt(uint, HIGHEST_ENCODED_42) THEN InvalidPageIdBytes
  ELSE LET bit_count == UINT_BITS - leading_zeros(uint)
           sextets == (bit_count + 5) \div 6
       IN IF bit_count = 0 THEN Ok(ROOT_PAGE_ID)
          ELSE LET r == decode_loop(uint, sextets - 1, << >>)
               IN IF r.full THEN CapacityPanic
                  ELSE IF uint_byte0(r.uint) = 0 THEN Ok(reverse(r.limbs))
                  ELSE IF Len(r.limbs) >= MAX_LIMBS THEN CapacityPanic
                  ELSE Ok(reverse(Append(r.limbs, uint_byte0(uint_sub_one(r.uint)))))

\* the loop of encode: add limb + 1, then shift
RECURSIVE encode_loop(_, _)
encode_loop(uint, limbs) ==
  IF limbs = << >> \/ Len(uint) # NUM_DIGITS THEN uint
  ELSE encode_loop(uint_shl(uint_add(uint, Head(limbs) + 1)), Tail(limbs))

\* PageId::encode
encode(limbs) == to_be_bytes(encode_loop(from_be_bytes([k \in 1..ID_BYTES |-> 0]), limbs))

\* the disambiguated representation as the module's doc gives it: shift the
\* pattern left by 6 bits, then add the child index, then add 1
RECURSIVE disambiguated_loop(_, _)
disambiguated_loop(uint, limbs) ==
  IF limbs = << >> \/ Len(uint) # NUM_DIGITS THEN uint
  ELSE disambiguated_loop(uint_add(uint_shl(uint), Head(limbs) + 1), Tail(limbs))

disambiguated(limbs) ==
  to_be_bytes(disambiguated_loop(from_be_bytes([k \in 1..ID_BYTES |-> 0]), limbs))

\* a ChildPageIndex::new that refuses MAX_CHILD_INDEX
ChildPageIndex_new_below(index) == IF index >= MAX_CHILD_INDEX THEN << >> ELSE << index >>

\* ChildPageIndex::new
ChildPageIndex_new(index) == IF index > MAX_CHILD_INDEX THEN << >> ELSE << index >>

\* a child_page_id that takes one limb more
child_page_id_one_more(limbs, child_index) ==
  IF Len(limbs) > MAX_LIMBS THEN PageIdOverflow ELSE Ok(Append(limbs, child_index))

\* PageId::child_page_id
child_page_id(limbs, child_index) ==
  IF Len(limbs) >= MAX_LIMBS THEN PageIdOverflow ELSE Ok(Append(limbs, child_index))

\* a parent that is the id without its first limb
parent_page_id_front(limbs) ==
  IF limbs = << >> THEN << >> ELSE Tail(limbs)

\* PageId::parent_page_id
parent_page_id(limbs) ==
  IF limbs = ROOT_PAGE_ID THEN ROOT_PAGE_ID ELSE SubSeq(limbs, 1, Len(limbs) - 1)

\* ------------------------------------------------------ page ids taken alone
\* the limbs of a path: n limbs, the first f, the others m
limbs_of(n, f, m) == SubSeq([i \in 1..n |-> IF i = 1 THEN f ELSE m], 1, n)

\* the paths taken from the root: the ids of the tests, and the long ones up
\* to one limb more than a PageId holds
PathChoices ==
  { << 6 >>, << 6, 4 >>, << 6, 4, 63 >>, << 63 >>, << 0 >> }
    \cup { limbs_of(n, f, m) : n \in (MAX_LIMBS - 1)..(MAX_LIMBS + 1),
                               f \in {0, 16, MAX_CHILD_INDEX}, m \in {0, MAX_CHILD_INDEX} }

\* the bytes of an integer below 2^16
low_bytes(hi, lo) ==
  SubSeq([k \in 1..ID_BYTES |-> IF k = ID_BYTES THEN lo ELSE IF k = ID_BYTES - 1 THEN hi ELSE 0],
         1, ID_BYTES)

\* the bytes decode is given besides those made from pid: zero, the values
\* of the tests, the highest valid value, the one above it, and values
\* with the top bits set
BytesChoices ==
  { low_bytes(0, 0), low_bytes(0, 7), low_bytes(1, 197), low_bytes(113, 128),
    low_bytes(0, 64), low_bytes(1, 0),
    to_be_bytes(HIGHEST_ENCODED_42), to_be_bytes(uint_add(HIGHEST_ENCODED_42, 1)),
    SubSeq([k \in 1..ID_BYTES |-> IF k = 1 THEN 128 ELSE 0], 1, ID_BYTES),
    SubSeq([k \in 1..ID_BYTES |-> 255], 1, ID_BYTES) }

\* ROOT_PAGE_ID.child_page_id(l1)?.child_page_id(l2)? ... : the first error ends it
RECURSIVE descend_from(_, _)
descend_from(limbs, path) ==
  IF path = << >> THEN Ok(limbs)
  ELSE LET r == child_page_id(limbs, ChildPageIndex_new(Head(path))[1])
       IN IF r.res # "Ok" THEN r ELSE descend_from(r.limbs, Tail(path))

\* a page id is built from the root; the calls made on the former one are
\* forgotten. On PageIdOverflow the id stays the one the error was returned for
descend(path) ==
  LET r == descend_from(ROOT_PAGE_ID, path) IN
  /\ pid' = IF r.res = "Ok" THEN r.limbs ELSE parent_page_id(path)
  /\ pid2' = pid'
  /\ encoded' = NoneEncoded
  /\ dec_arg' = NoBytes
  /\ decoded' = NotCalled
  /\ UNCHANGED << cached, fetches, pages, store, update_rwl, evict_queue, ev, fetch_tp,
                  worker, pc, th, budget, loads, handed, panics, page_diffs, tx, ci >>
  /\ UNCHANGED << ivars, dvars, iovars >>

\* a second page id of the same depth is built from the root
descend_other(path) ==
  LET r == descend_from(ROOT_PAGE_ID, path) IN
  /\ Len(path) = Len(pid)
  /\ \A i \in 2..Len(path) : path[i] = pid[i]
  /\ r.res = "Ok"
  /\ pid2' = r.limbs
  /\ encoded' = [encoded EXCEPT !.pid2 = NoBytes]
  /\ UNCHANGED << pid, dec_arg, decoded >>
  /\ UNCHANGED << cached, fetches, pages, store, update_rwl, evict_queue, ev, fetch_tp,
                  worker, pc, th, budget, loads, handed, panics, page_diffs, tx, ci >>
  /\ UNCHANGED << ivars, dvars, iovars >>

\* a call of encode() on pid, on pid2, or on the id decode returned
call_encode(which) ==
  /\ which = "decoded" => decoded.res = "Ok"
  /\ encoded[which] = NoBytes
  /\ encoded' = [encoded EXCEPT ![which] =
                   encode(CASE which = "pid" -> pid
                            [] which = "pid2" -> pid2
                            [] which = "decoded" -> decoded.limbs)]
  /\ UNCHANGED << pid, pid2, dec_arg, decoded >>
  /\ UNCHANGED << cached, fetches, pages, store, update_rwl, evict_queue, ev, fetch_tp,
                  worker, pc, th, budget, loads, handed, panics, page_diffs, tx, ci >>
  /\ UNCHANGED << ivars, dvars, iovars >>

\* a call of PageId::decode(bytes), the one made on the id at hand
call_decode(bytes) ==
  /\ bytes # NoBytes
  /\ decoded = NotCalled
  /\ dec_arg' = bytes
  /\ decoded' = decode(bytes)
  /\ encoded' = [encoded EXCEPT !.decoded = NoBytes]
  /\ UNCHANGED << pid, pid2 >>
  /\ UNCHANGED << cached, fetches, pages, store, update_rwl, evict_queue, ev, fetch_tp,
                  worker, pc, th, budget, loads, handed, panics, page_diffs, tx, ci >>
  /\ UNCHANGED << ivars, dvars, iovars >>

\* -------------------------------------------------- children and parents
\* a is the beginning of b
IsPrefix(a, b) == Len(a) <= Len(b) /\ SubSeq(b, 1, Len(a)) = a

\* a call of ChildPageIndex::new(i), the one made for the id at hand
call_index(i) ==
  /\ ~idx.called
  /\ idx' = [called |-> TRUE, arg |-> i, ret |-> ChildPageIndex_new(i)]
  /\ child' = NotCalled
  /\ parent' = NoParent
  /\ UNCHANGED << iter, yielded >>
  /\ UNCHANGED << pvars, dvars, iovars >>
  /\ UNCHANGED << cached, fetches, pages, store, update_rwl, evict_queue, ev, fetch_tp,
                  worker, pc, th, budget, loads, handed, panics, page_diffs, tx, ci >>

\* a call of pid.child_page_id(idx), with the ChildPageIndex that new returned
call_child ==
  /\ idx.ret # << >>
  /\ child = NotCalled
  /\ child' = child_page_id(pid, idx.ret[1])
  /\ UNCHANGED << idx, parent, iter, yielded >>
  /\ UNCHANGED << pvars, dvars, iovars >>
  /\ UNCHANGED << cached, fetches, pages, store, update_rwl, evict_queue, ev, fetch_tp,
                  worker, pc, th, budget, loads, handed, panics, page_diffs, tx, ci >>

\* a call of parent_page_id(), on pid or on the child it returned
call_parent(which) ==
  /\ which = "child" => child.res = "Ok"
  /\ ~parent.called
  /\ LET of == IF which = "child" THEN child.limbs ELSE pid
     IN parent' = [called |-> TRUE, of |-> of, ret |-> parent_page_id(of)]
  /\ UNCHANGED << idx, child, iter, yielded >>
  /\ UNCHANGED << pvars, dvars, iovars >>
  /\ UNCHANGED << cached, fetches, pages, store, update_rwl, evict_queue, ev, fetch_tp,
                  worker, pc, th, budget, loads, handed, panics, page_diffs, tx, ci >>

\* the caller goes on from the child, down one of the paths
take_child ==
  /\ child.res = "Ok"
  /\ \E path \in PathChoices : IsPrefix(child.limbs, path)
  /\ pid' = child.limbs
  /\ pid2' = child.limbs
  /\ idx' = NoIndex
  /\ child' = NotCalled
  /\ parent' = NoParent
  /\ UNCHANGED << encoded, dec_arg, decoded, iter, yielded >>
  /\ UNCHANGED << dvars, iovars >>
  /\ UNCHANGED << cached, fetches, pages, store, update_rwl, evict_queue, ev, fetch_tp,
                  worker, pc, th, budget, loads, handed, panics, page_diffs, tx, ci >>

\* --------------------------------------------------------- PageIdsIterator
\* the key paths iterated: those of the tests, the lowest, the highest, and
\* one whose sextets differ
KeyChoices ==
  { SubSeq([k \in 1..ID_BYTES |-> IF k = 1 THEN 4 ELSE IF k = 2 THEN 32 ELSE 0], 1, ID_BYTES),
    SubSeq([k \in 1..ID_BYTES |-> IF k = 1 THEN 11 ELSE IF k = 2 THEN 240 ELSE 0], 1, ID_BYTES),
    SubSeq([k \in 1..ID_BYTES |-> 0], 1, ID_BYTES),
    SubSeq([k \in 1..ID_BYTES |-> U8_MAX], 1, ID_BYTES),
    SubSeq([k \in 1..ID_BYTES |-> (37 * k) % (U8_MAX + 1)], 1, ID_BYTES) }

\* PageIdsIterator::new
iter_new(key) ==
  /\ iter' = [key |-> key, key_path |-> from_be_bytes(key), page_id |-> Ok(ROOT_PAGE_ID)]
  /\ yielded' = NoneYielded
  /\ UNCHANGED << idx, child, parent >>
  /\ UNCHANGED << pvars, dvars, iovars >>
  /\ UNCHANGED << cached, fetches, pages, store, update_rwl, evict_queue, ev, fetch_tp,
                  worker, pc, th, budget, loads, handed, panics, page_diffs, tx, ci >>

\* PageIdsIterator::next
iter_next ==
  /\ iter # NoIter
  /\ ~yielded.panic
  /\ IF iter.page_id.res # "Ok"
       THEN \* self.page_id.take()? : None
            /\ yielded' = [yielded EXCEPT !.item = NotCalled, !.ended = TRUE]
            /\ UNCHANGED iter
       ELSE LET prev == iter.page_id.limbs
                child_index == ChildPageIndex_new(uint_byte31(iter.key_path) \div 4)
            IN IF child_index = << >>
                 THEN \* unwrap() of None
                      /\ yielded' = [yielded EXCEPT !.panic = TRUE]
                      /\ iter' = [iter EXCEPT !.page_id = NotCalled]
                 ELSE LET r == child_page_id(prev, child_index[1])
                      IN /\ iter' = [iter EXCEPT !.key_path = uint_shl(iter.key_path),
                                                 !.page_id = IF r.res = "Ok" THEN r ELSE NotCalled]
                         /\ yielded' = [yielded EXCEPT !.n = yielded.n + 1, !.item = Ok(prev)]
  /\ UNCHANGED << idx, child, parent >>
  /\ UNCHANGED << pvars, dvars, iovars >>
  /\ UNCHANGED << cached, fetches, pages, store, update_rwl, evict_queue, ev, fetch_tp,
                  worker, pc, th, budget, loads, handed, panics, page_diffs, tx, ci >>

\* ---------------------------------------------------------------- PageData
\* LEAF_DATA_BITFIELD_OFF: the offset of the leaf bitfield in the page
LEAF_DATA_BITFIELD_OFF == LEAF_META_BITFIELD_SLOT * 32

\* vec![0; 4096]; byte o of a Vec is its element o + 1
zero_page == SubSeq([o \in 1..PAGE_SIZE |-> 0], 1, PAGE_SIZE)

\* Node::default(), [0u8; 32]
zero_node == SubSeq([o \in 1..SLOT_SIZE |-> 0], 1, SLOT_SIZE)

\* data.get_or_insert_with(|| vec![0; 4096])
get_or_insert(data) == IF data = << >> THEN zero_page ELSE data

\* data[start..].copy_from_slice(bytes)
copy_from_slice(data, start, bytes) ==
  SubSeq(data, 1, start) \o bytes \o SubSeq(data, start + Len(bytes) + 1, Len(data))

\* view_bits::<Msb0>: bit i of the bitfield is in its byte i / 8, the highest
\* bit of the byte first
msb0_mask(i) == 2 ^ (7 - (i % 8))
msb0_byte(i) == LEAF_DATA_BITFIELD_OFF + (i \div 8) + 1

\* leaf_data_bits(data)[i]
bits_get(data, i) == (data[msb0_byte(i)] \div msb0_mask(i)) % 2

\* leaf_data_bits(data).set(i, v)
bits_set(data, i, v) ==
  [data EXCEPT ![msb0_byte(i)] = @ + (v - bits_get(data, i)) * msb0_mask(i)]

\* LeafData::encode_into: the key path, then the value hash
encode_into(leaf_data) == leaf_data.key_path \o leaf_data.value_hash

\* PageData::node; the assertion is the caller's to pass
node(data, index) ==
  IF data = << >> THEN zero_node
  ELSE SubSeq(data, index * 32 + 1, index * 32 + 32)

\* the leaf bit of a slot, as a reader of the page sees it
leaf_bit(data, i) == IF data = << >> THEN 0 ELSE bits_get(data, i)

\* 32 bytes, none of them zero, named by k
bytes32(k) == SubSeq([o \in 1..SLOT_SIZE |-> ((o * k) % 251) + 1], 1, SLOT_SIZE)

\* the nodes and the leaf data written, and the indices they are written at:
\* the first slots, the slots of the scenario, the last ones, and one beyond
NodeChoices == { bytes32(1), bytes32(2) }
LeafChoices == { [key_path |-> bytes32(3), value_hash |-> bytes32(4)] }
SlotChoices == { 0, 10, 11, NODES_PER_PAGE - 2, NODES_PER_PAGE - 1, NODES_PER_PAGE }

\* a set_node that leaves the leaf bit as it is
set_node_keeping_bit(index, n) ==
  /\ pd_calls < MaxPageCalls
  /\ pd_calls' = pd_calls + 1
  /\ IF index < NODES_PER_PAGE
       THEN /\ pdata' = copy_from_slice(get_or_insert(pdata), index * 32, n)
            /\ pd_aborted' = FALSE
       ELSE /\ pd_aborted' = TRUE
            /\ UNCHANGED pdata
  /\ UNCHANGED << pvars, ivars, iovars >>
  /\ UNCHANGED << cached, fetches, pages, store, update_rwl, evict_queue, ev, fetch_tp,
                  worker, pc, th, budget, loads, handed, panics, page_diffs, tx, ci >>

\* PageData::set_node
set_node(index, n) ==
  /\ pd_calls < MaxPageCalls
  /\ pd_calls' = pd_calls + 1
  /\ IF index < NODES_PER_PAGE
       THEN /\ pdata' = bits_set(copy_from_slice(get_or_insert(pdata), index * 32, n),
                                 index, 0)
            /\ pd_aborted' = FALSE
       ELSE \* assert!(index < NODES_PER_PAGE)
            /\ pd_aborted' = TRUE
            /\ UNCHANGED pdata
  /\ UNCHANGED << pvars, ivars, iovars >>
  /\ UNCHANGED << cached, fetches, pages, store, update_rwl, evict_queue, ev, fetch_tp,
                  worker, pc, th, budget, loads, handed, panics, page_diffs, tx, ci >>

\* a set_leaf_data that asserts after the buffer was made
set_leaf_data_late_assert(left_index, leaf_data) ==
  /\ pd_calls < MaxPageCalls
  /\ pd_calls' = pd_calls + 1
  /\ IF left_index < NODES_PER_PAGE - 1
       THEN /\ pdata' = copy_from_slice(
                           bits_set(bits_set(get_or_insert(pdata), left_index, 1),
                                    left_index + 1, 1),
                           left_index * 32, encode_into(leaf_data))
            /\ pd_aborted' = FALSE
       ELSE /\ pd_aborted' = TRUE
            /\ pdata' = get_or_insert(pdata)
  /\ UNCHANGED << pvars, ivars, iovars >>
  /\ UNCHANGED << cached, fetches, pages, store, update_rwl, evict_queue, ev, fetch_tp,
                  worker, pc, th, budget, loads, handed, panics, page_diffs, tx, ci >>

\* PageData::set_leaf_data, left_index being children.left()
set_leaf_data(left_index, leaf_data) ==
  /\ pd_calls < MaxPageCalls
  /\ pd_calls' = pd_calls + 1
  /\ IF left_index < NODES_PER_PAGE - 1
       THEN /\ pdata' = copy_from_slice(
                           bits_set(bits_set(get_or_insert(pdata), left_index, 1),
                                    left_index + 1, 1),
                           left_index * 32, encode_into(leaf_data))
            /\ pd_aborted' = FALSE
       ELSE \* assert!(left_index < NODES_PER_PAGE - 1)
            /\ pd_aborted' = TRUE
            /\ UNCHANGED pdata
  /\ UNCHANGED << pvars, ivars, iovars >>
  /\ UNCHANGED << cached, fetches, pages, store, update_rwl, evict_queue, ev, fetch_tp,
                  worker, pc, th, budget, loads, handed, panics, page_diffs, tx, ci >>

\* a clear_leaf_data that zeroes both slots whatever their bits were
clear_leaf_data_both(left_index) ==
  /\ pd_calls < MaxPageCalls
  /\ pd_calls' = pd_calls + 1
  /\ IF left_index < NODES_PER_PAGE - 1
       THEN /\ pdata' = copy_from_slice(
                           bits_set(bits_set(get_or_insert(pdata), left_index, 0),
                                    left_index + 1, 0),
                           left_index * 32, zero_node \o zero_node)
            /\ pd_aborted' = FALSE
       ELSE /\ pd_aborted' = TRUE
            /\ UNCHANGED pdata
  /\ UNCHANGED << pvars, ivars, iovars >>
  /\ UNCHANGED << cached, fetches, pages, store, update_rwl, evict_queue, ev, fetch_tp,
                  worker, pc, th, budget, loads, handed, panics, page_diffs, tx, ci >>

\* PageData::clear_leaf_data, left_index being children.left()
clear_leaf_data(left_index) ==
  /\ pd_calls < MaxPageCalls
  /\ pd_calls' = pd_calls + 1
  /\ IF left_index < NODES_PER_PAGE - 1
       THEN LET data == get_or_insert(pdata)
                overwrite_l == bits_get(data, left_index) = 1
                overwrite_r == bits_get(data, left_index + 1) = 1
                cleared == bits_set(bits_set(data, left_index, 0), left_index + 1, 0)
                start == left_index * 32
                l_end == start + 32
                left == IF overwrite_l THEN copy_from_slice(cleared, start, zero_node)
                        ELSE cleared
            IN /\ pdata' = IF overwrite_r THEN copy_from_slice(left, l_end, zero_node)
                            ELSE left
               /\ pd_aborted' = FALSE
       ELSE \* assert!(left_index < NODES_PER_PAGE - 1)
            /\ pd_aborted' = TRUE
            /\ UNCHANGED pdata
  /\ UNCHANGED << pvars, ivars, iovars >>
  /\ UNCHANGED << cached, fetches, pages, store, update_rwl, evict_queue, ev, fetch_tp,
                  worker, pc, th, budget, loads, handed, panics, page_diffs, tx, ci >>

\* -------------------------------------------------------------- I/O workers
\* a u64 is held as four 16-bit limbs, the least significant first
LIMB == 65536
u64(v) == << v, 0, 0, 0 >>

\* the pages of the file behind an open descriptor
FILE_PAGES == 2
\* the descriptors that are open
OpenFds == {3}

\* page_index * PAGE_SIZE as u64 overflows 64 bits
mul_overflows(page_index) == page_index[4] \div (LIMB \div PAGE_SIZE) # 0

\* page_index * PAGE_SIZE as u64 where overflow is not checked: the low 64 bits
wrapping_mul(page_index) ==
  LET k == LIMB \div PAGE_SIZE IN
  << (page_index[1] % k) * PAGE_SIZE,
     (page_index[2] % k) * PAGE_SIZE + (page_index[1] \div k),
     (page_index[3] % k) * PAGE_SIZE + (page_index[2] \div k),
     (page_index[4] % k) * PAGE_SIZE + (page_index[3] \div k) >>

\* `as libc::off_t`: the same 64 bits read as an i64, negative with the top bit
off_t_negative(off) == off[4] >= LIMB \div 2

\* the offset lies inside the file
in_file(off) ==
  /\ off[2] = 0 /\ off[3] = 0 /\ off[4] = 0
  /\ off[1] < FILE_PAGES * PAGE_SIZE

\* libc::pread: -1 on a bad descriptor or a negative offset, else the bytes read
pread(fd, count, off) ==
  IF fd \notin OpenFds \/ off_t_negative(off) THEN -1
  ELSE IF in_file(off) THEN count ELSE 0

\* libc::pwrite: -1 on a bad descriptor or a negative offset, else the bytes written
pwrite(fd, count, off) ==
  IF fd \notin OpenFds \/ off_t_negative(off) THEN -1 ELSE count

\* libc::fsync
fsync(fd) == IF fd \notin OpenFds THEN -1 ELSE 0

\* IoKind::Read, Write, WriteRaw and Fsync; page 0 is the caller's buffer as
\* it was handed in
Read(fd, page_index) ==
  [op |-> "Read", fd |-> fd, page_index |-> page_index, size |-> PAGE_SIZE, page |-> 0]
Write(fd, page_index) ==
  [op |-> "Write", fd |-> fd, page_index |-> page_index, size |-> PAGE_SIZE, page |-> 0]
WriteRaw(fd, page_index, size) ==
  [op |-> "WriteRaw", fd |-> fd, page_index |-> page_index, size |-> size, page |-> 0]
Fsync(fd) ==
  [op |-> "Fsync", fd |-> fd, page_index |-> u64(0), size |-> 0, page |-> 0]

\* the kinds of command the callers send
KindChoices ==
  << Read(3, u64(0)), Read(-1, u64(0)), Write(3, u64(1)), Fsync(3),
     WriteRaw(3, u64(1), 100), Write(3, << 0, 0, 0, 8 >>), Read(3, u64(5)),
     Read(3, << 0, 0, 0, 16 >>), Fsync(-1) >>

\* the n-th packet sent: its command, and whether the receiver of its
\* completion channel is still there when the completion is sent
IoPacket(n) ==
  [n |-> n,
   command |-> [kind |-> KindChoices[((n - 1) % Len(KindChoices)) + 1]],
   connected |-> n % 3 # 0]

\* the system call of execute and what it returns
syscall(kind) ==
  CASE kind.op = "Read" -> pread(kind.fd, PAGE_SIZE, wrapping_mul(kind.page_index))
    [] kind.op = "Write" -> pwrite(kind.fd, PAGE_SIZE, wrapping_mul(kind.page_index))
    [] kind.op = "WriteRaw" -> pwrite(kind.fd, kind.size, wrapping_mul(kind.page_index))
    [] kind.op = "Fsync" -> fsync(kind.fd)

\* the command after the call: a read that returned bytes has filled the page
after_call(command) ==
  LET kind == command.kind IN
  IF kind.op = "Read" /\ syscall(kind) > 0
    THEN [command EXCEPT !.kind.page = 1 + wrapping_mul(kind.page_index)[1] \div PAGE_SIZE]
    ELSE command

\* execute(command): CompleteIo { command, result }
execute(command) ==
  [command |-> after_call(command),
   result |-> IF syscall(command.kind) = -1 THEN "Err" ELSE "Ok"]

\* a caller's command_tx.send(packet): blocks while the channel is full
send_packet ==
  /\ tx_alive
  /\ accepted < MaxPackets
  /\ Len(command_q) < MAX_IN_FLIGHT
  /\ accepted' = accepted + 1
  /\ command_q' = Append(command_q, accepted + 1)
  /\ UNCHANGED << io_workers, tx_alive, syscalls, sent_io >>
  /\ UNCHANGED << cached, fetches, pages, store, update_rwl, evict_queue, ev, fetch_tp,
                  worker, pc, th, budget, loads, handed, panics, page_diffs, tx, ci >>
  /\ UNCHANGED << pvars, ivars, dvars >>

\* the callers drop the last Sender of the command channel after their last
\* packet
drop_sender ==
  /\ tx_alive
  /\ accepted = MaxPackets
  /\ tx_alive' = FALSE
  /\ UNCHANGED << command_q, io_workers, accepted, syscalls, sent_io >>
  /\ UNCHANGED << cached, fetches, pages, store, update_rwl, evict_queue, ev, fetch_tp,
                  worker, pc, th, budget, loads, handed, panics, page_diffs, tx, ci >>
  /\ UNCHANGED << pvars, ivars, dvars >>

\* command_rx.recv() returns Ok(packet)
worker_recv ==
  /\ io_workers.recv > 0
  /\ command_q # << >>
  /\ command_q' = Tail(command_q)
  /\ io_workers' = [io_workers EXCEPT !.recv = @ - 1, !.execute[Head(command_q)] = @ + 1]
  /\ UNCHANGED << tx_alive, accepted, syscalls, sent_io >>
  /\ UNCHANGED << cached, fetches, pages, store, update_rwl, evict_queue, ev, fetch_tp,
                  worker, pc, th, budget, loads, handed, panics, page_diffs, tx, ci >>
  /\ UNCHANGED << pvars, ivars, dvars >>

\* command_rx.recv() returns Err, the channel being empty and disconnected:
\* the worker breaks out of its loop
worker_break ==
  /\ io_workers.recv > 0
  /\ command_q = << >>
  /\ ~tx_alive
  /\ io_workers' = [io_workers EXCEPT !.recv = @ - 1, !.exited = @ + 1]
  /\ UNCHANGED << command_q, tx_alive, accepted, syscalls, sent_io >>
  /\ UNCHANGED << cached, fetches, pages, store, update_rwl, evict_queue, ev, fetch_tp,
                  worker, pc, th, budget, loads, handed, panics, page_diffs, tx, ci >>
  /\ UNCHANGED << pvars, ivars, dvars >>

\* execute(packet.command) and completion_sender.send(complete), whose result
\* is dropped. Where overflow is checked the multiplication of an index of
\* 2^52 or more panics, and the thread ends with the packet
worker_execute(n) ==
  /\ io_workers.execute[n] > 0
  /\ LET packet == IoPacket(n)
         kind == packet.command.kind
         complete == execute(packet.command)
     IN \/ /\ kind.op # "Fsync"
           /\ mul_overflows(kind.page_index)
           /\ io_workers' = [io_workers EXCEPT !.execute[n] = @ - 1, !.panicked = @ + 1]
           /\ UNCHANGED << syscalls, sent_io >>
        \/ /\ syscalls' = [syscalls EXCEPT ![n] = Append(@, syscall(kind))]
           /\ sent_io' = [sent_io EXCEPT ![n] =
                            Append(@, [command |-> complete.command,
                                       result |-> complete.result,
                                       delivered |-> packet.connected])]
           /\ io_workers' = [io_workers EXCEPT !.execute[n] = @ - 1, !.recv = @ + 1]
  /\ UNCHANGED << command_q, tx_alive, accepted >>
  /\ UNCHANGED << cached, fetches, pages, store, update_rwl, evict_queue, ev, fetch_tp,
                  worker, pc, th, budget, loads, handed, panics, page_diffs, tx, ci >>
  /\ UNCHANGED << pvars, ivars, dvars >>

\* ---------------------------------------------------------------- specification
\* the clients, the fetch pool and the eviction passes
Next ==
  \/ \E t \in Threads, id \in PageIds : prepopulate(t, id)
  \/ \E t \in Threads, id \in PageIds : cancel_prepopulate(t, id)
  \/ \E t \in Threads, id \in PageIds, h \in BOOLEAN : retrieve_sync(t, id, h)
  \/ \E p \in Procs : evict_pop(p)
  \/ \E p \in Procs : evict_remove(p)
  \/ \E t \in Threads : prepopulate_entry(t)
  \/ \E t \in Threads : retrieve_sync_entry(t)
  \/ \E t \in Threads : wait(t)
  \/ \E t \in Threads : retrieve_sync_load(t)
  \/ \E t \in Threads : retrieve_sync_publish(t)
  \/ \E w \in DOMAIN worker : task_start(w)
  \/ \E w \in DOMAIN worker : task_load(w)
  \/ \E w \in DOMAIN worker : task_publish(w)

Spec == Init /\ [][Next]_vars

\* the same with update phases
InitUpdate == InitWith(MaxUpdateCalls)

NextUpdate ==
  \/ Next
  \/ start_update_phase
  \/ write_acquired
  \/ CommitGuard_drop

SpecUpdate == InitUpdate /\ [][NextUpdate]_vars

\* a commit on a quiet cache
NextCommit == commit

SpecCommit == InitCommit /\ [][NextCommit]_vars

\* the InflightFetches taken alone
NextFetch ==
  \/ \E f \in DOMAIN fetches, p \in DOMAIN pages : fetch_complete(f, p)
  \/ \E t \in Threads, f \in DOMAIN fetches : fetch_wait(t, f)
  \/ \E t \in Threads : wait(t)

SpecFetch == InitFetch /\ [][NextFetch]_vars

\* the page ids taken alone: ids are built from the root, encoded, and bytes
\* are decoded: those of the tests, the representation of pid, what encode
\* returned for pid
InitPageId == InitWith(0)

NextPageId ==
  \/ \E path \in PathChoices : descend(path)
  \/ \E path \in PathChoices : descend_other(path)
  \/ \E which \in {"pid", "pid2", "decoded"} : call_encode(which)
  \/ \E bytes \in BytesChoices \cup {disambiguated(pid), encoded.pid} : call_decode(bytes)

SpecPageId == InitPageId /\ [][NextPageId]_vars

\* children and parents: from the root down the paths, any u8 offered as
\* a child index
InitChild == InitWith(0)

NextChild ==
  \/ \E i \in 0..U8_MAX : call_index(i)
  \/ call_child
  \/ \E which \in {"pid", "child"} : call_parent(which)
  \/ take_child

SpecChild == InitChild /\ [][NextChild]_vars

\* the iterators over the key paths
InitIter == InitWith(0)

NextIter ==
  \/ \E key \in KeyChoices : iter_new(key)
  \/ iter_next

SpecIter == InitIter /\ [][NextIter]_vars

\* a PageData taken alone: a page never written, and the three writers
InitPageData == InitWith(0)

NextPageData ==
  \/ \E index \in SlotChoices, n \in NodeChoices : set_node(index, n)
  \/ \E left_index \in SlotChoices, leaf_data \in LeafChoices :
       set_leaf_data(left_index, leaf_data)
  \/ \E left_index \in SlotChoices : clear_leaf_data(left_index)

SpecPageData == InitPageData /\ [][NextPageData]_vars

\* the I/O worker pool taken alone, as start_io_worker leaves it
InitIo == InitWith(0)

NextIo ==
  \/ send_packet
  \/ drop_sender
  \/ worker_recv
  \/ worker_break
  \/ \E n \in 1..MaxPackets : worker_execute(n)

SpecIo == InitIo /\ [][NextIo]_vars

\* ====================================================================== claims

\* the empty page that a hint_fresh pre-emption completed f with (0: none did)
PreemptedWith(f) ==
  IF f # 0 /\ fetches[f] # 0 /\ pages[fetches[f]].by = "hint_fresh" THEN fetches[f] ELSE 0

\* C1: single-flight. For every id, load_page(id) is called at most once
\* between two successive evictions of id, and at most once before the first.
SingleFlight == \A id \in PageIds : loads[id] <= 1

\* C2: pre-emption safety. A retrieve_sync(id, true) that finds the entry
\* Inflight returns an empty page, and the call of every retrieve_sync(id, false)
\* that waits on that InflightFetch, or that inserted it and loads for it, ends
\* by returning that same page.
PreemptionSafety ==
  [][\A t \in Threads :
       /\ ( /\ pc[t] = "entry" /\ th[t].op = "retrieve_sync" /\ th[t].hint
            /\ cached[th[t].id].st = "Inflight"
            /\ pc'[t] = "idle" )
          => /\ pages'[th'[t].ret].data = 0
             /\ fetches'[cached[th[t].id].ref] = th'[t].ret
       /\ ( /\ pc[t] \in {"wait", "load", "publish"}
            /\ PreemptedWith(th[t].f) # 0
            /\ pc'[t] \in {"idle", "panicked"} )
          => th'[t].ret = PreemptedWith(th[t].f)
  ]_vars

\* C3: every Page handle handed out for an id since the id was last evicted
\* references the PageData that the map's Cached entry for the id holds.
SamePageData ==
  \A id \in PageIds :
    handed[id] \subseteq (IF cached[id].st = "Cached" THEN {cached[id].ref} ELSE {})

\* C4 (liveness, in the form a finite run refutes): no call of retrieve_sync
\* is cut short by a panic, and every caller blocked in wait() waits on an
\* InflightFetch that is completed or is still the one of the map's entry, which
\* the fetch task, the loader or a pre-emption will complete.
RetrieveSyncReturns ==
  \A t \in Threads :
    /\ ~(pc[t] = "panicked" /\ th[t].op = "retrieve_sync")
    /\ pc[t] = "wait" =>
         fetches[th[t].f] # 0 \/ cached[th[t].id] = Inflight(th[t].f)

\* C5 (in the form a finite run refutes): an entry that is Inflight stays
\* Inflight until it becomes Cached; it never leaves the map as Inflight.
InflightBecomesCached ==
  [][\A id \in PageIds :
       cached[id].st = "Inflight" => cached'[id].st \in {"Inflight", "Cached"}]_vars

\* C6: eviction gating. While the guard of start_update_phase is held, no
\* step of any thread removes an entry from the map.
EvictionGating ==
  [][pc[Updater] = "held" =>
       \A id \in PageIds : cached[id] # Vacant => cached'[id] # Vacant]_vars

\* C6, the case: the guard is held, a client's access has gone through its
\* eviction attempt, and the queue holds an id whose entry is Cached.
EvictionGatingWitness ==
  /\ pc[Updater] = "held"
  /\ \E t \in Threads : pc[t] = "entry"
  /\ evict_queue # << >>
  /\ cached[Head(evict_queue)].st = "Cached"

\* C7: an eviction pass never pops an id whose entry is Inflight, and the
\* panic of try_perform_evict is never reached.
NoInflightEvicted ==
  /\ "evict_inflight" \notin panics
  /\ \A p \in Procs :
       pc[p] = "evict_remove" => cached[th[p].victim].st # "Inflight"

\* the instructions the transaction holds for pair k
InstructionsOf(k) == {j \in 1..Len(tx) : tx[j].k = k}

\* the page of pair k has no buffer, or its slots 0 and 1 are all zero
EmptyPageOf(k) ==
  LET data == pages[cached[page_diffs[k].id].ref].data IN
  \/ data = 0
  \/ \A slot \in {0, 1}, i \in 0..31 : buffer(data)[32 * slot + i] = 0

\* instruction j is what C8 asks for pair k, whose entry is Cached
DispatchedAsClaimed(j, k) ==
  LET data == pages[cached[page_diffs[k].id].ref].data
      bits == Cardinality(page_diffs[k].diff)
  IN /\ tx[j].id = page_diffs[k].id
     /\ IF EmptyPageOf(k) THEN tx[j].op = "delete_page"
        ELSE IF bits >= 32
          THEN /\ tx[j].op = "write_page"
               /\ Len(tx[j].data) = 4096
               /\ \A o \in 0..4095 : tx[j].data[o + 1] = buffer(data)[o]
          ELSE /\ tx[j].op = "write_page_nodes"
               /\ Len(tx[j].data) = 33 * bits

\* C8 as stated: for each pair commit has gone through, the transaction holds
\* exactly one instruction: delete_page for an empty page, write_page of the
\* whole page for 32 changed slots or more, write_page_nodes with one record
\* per changed slot otherwise.
CommitDispatchEveryPair ==
  \A k \in 1..ci :
    /\ Cardinality(InstructionsOf(k)) = 1
    /\ cached[page_diffs[k].id].st = "Cached" =>
         \A j \in InstructionsOf(k) : DispatchedAsClaimed(j, k)

\* C8 as amended: the same, for each pair whose id has a Cached entry.
CommitDispatch ==
  \A k \in 1..ci :
    cached[page_diffs[k].id].st = "Cached" =>
      /\ Cardinality(InstructionsOf(k)) = 1
      /\ \A j \in InstructionsOf(k) : DispatchedAsClaimed(j, k)

\* C8, the case: one commit met 31 changed slots and wrote a delta, and met
\* 32 changed slots and wrote the page.
CommitDispatchWitness ==
  /\ \E j \in 1..Len(tx) :
       tx[j].op = "write_page_nodes" /\ Cardinality(page_diffs[tx[j].k].diff) = 31
  /\ \E j \in 1..Len(tx) :
       tx[j].op = "write_page" /\ Cardinality(page_diffs[tx[j].k].diff) = 32

\* C9: a delta is the records of the changed slots in ascending slot order,
\* each the slot index in one byte and then the slot's 32 bytes; its length is
\* 33 times the number of changed slots.
DeltaFormat ==
  \A j \in 1..Len(tx) :
    tx[j].op = "write_page_nodes" =>
      LET diff == page_diffs[tx[j].k].diff
          page == buffer(pages[cached[tx[j].id].ref].data)
      IN /\ Len(tx[j].data) = 33 * Cardinality(diff)
         /\ \A slot \in diff :
              LET r == Cardinality({x \in diff : x < slot}) IN
              /\ tx[j].data[33 * r + 1] = slot
              /\ \A i \in 1..32 : tx[j].data[33 * r + 1 + i] = page[32 * slot + i - 1]

\* C9, the case: slots 3 and 7 changed, and the delta has 66 bytes.
DeltaFormatWitness ==
  \E j \in 1..Len(tx) :
    /\ tx[j].op = "write_page_nodes"
    /\ page_diffs[tx[j].k].diff = {3, 7}
    /\ Len(tx[j].data) = 66

\* C10 as stated: a pair whose id has no entry in the map, or whose page is
\* empty, makes commit give delete_page(id).
DeleteAbsentOrEmpty ==
  \A k \in 1..ci :
    (\/ cached[page_diffs[k].id] = Vacant
     \/ cached[page_diffs[k].id].st = "Cached" /\ EmptyPageOf(k))
      => \E j \in InstructionsOf(k) :
           tx[j].op = "delete_page" /\ tx[j].id = page_diffs[k].id

\* C10 as amended: a pair whose id has a Cached entry with an empty page makes
\* commit give delete_page(id); a pair whose id has no entry gives nothing.
DeleteEmptySkipAbsent ==
  \A k \in 1..ci :
    /\ cached[page_diffs[k].id].st = "Cached" /\ EmptyPageOf(k)
         => \E j \in InstructionsOf(k) :
              tx[j].op = "delete_page" /\ tx[j].id = page_diffs[k].id
    /\ cached[page_diffs[k].id] = Vacant => InstructionsOf(k) = {}

\* C10, the case: commit went through a pair whose id has no entry and a pair
\* whose page has a buffer and is empty.
DeleteEmptySkipAbsentWitness ==
  /\ ci = 2
  /\ cached[page_diffs[1].id] = Vacant
  /\ cached[page_diffs[2].id].st = "Cached"
  /\ pages[cached[page_diffs[2].id].ref].data # 0
  /\ EmptyPageOf(2)
  /\ Len(tx) = 1


\* C11: commit gives the transaction no instruction for an id whose entry is
\* Inflight; the turn of the loop that meets such an id panics, and nothing is
\* given to the transaction from then on.
CommitInflightPanics ==
  [][/\ \A j \in 1..Len(tx') : cached[tx'[j].id].st # "Inflight"
     /\ (ci < Len(page_diffs) /\ cached[page_diffs[ci + 1].id].st = "Inflight")
          => ("commit_inflight" \in panics' /\ tx' = tx /\ ci' = ci)
     /\ "commit_inflight" \in panics => tx' = tx]_vars

\* C11, the case: commit went through a first pair, wrote for it, and met an
\* Inflight entry at the second.
CommitInflightPanicsWitness ==
  /\ "commit_inflight" \in panics
  /\ ci = 1
  /\ Len(tx) = 1
  /\ cached[page_diffs[2].id].st = "Inflight"

\* C12: dropping the guard of start_update_phase runs an eviction pass: when
\* the queue holds the id of a Cached entry as the guard is dropped, the drop
\* goes on to pop it and to remove the entry; it does not end with the queue
\* untouched.
GuardDropEvicts ==
  [][( /\ pc[Updater] = "held" /\ pc'[Updater] # "held"
        /\ evict_queue # << >> /\ cached[Head(evict_queue)].st = "Cached" )
       => pc'[Updater] = "evict_pop"]_vars

\* C13: an InflightFetch is a one-shot cell. A complete_and_notify(p) on a
\* pending cell stores p; a cell that holds a page keeps it whatever is
\* completed later; every wait() returns the page the cell holds.
OneShotFetch ==
  [][/\ \A f \in DOMAIN fetches : fetches[f] # 0 => fetches'[f] = fetches[f]
     /\ \A f \in DOMAIN fetches, p \in DOMAIN pages :
          (fetch_complete(f, p) /\ fetches[f] = 0) => fetches'[f] = p
     /\ \A t \in Threads :
          (pc[t] = "wait" /\ pc'[t] = "idle")
            => (th'[t].ret # 0 /\ th'[t].ret = fetches[th[t].f])]_vars

\* C13, the case: three completions went to two cells, so one cell was
\* completed again, and both threads have returned from wait() with one page.
OneShotFetchWitness ==
  /\ budget = 0
  /\ fetches[1] # 0 /\ fetches[2] = 0
  /\ \A t \in Threads : pc[t] = "idle" /\ th[t].ret = fetches[1]

\* C14: cancel_prepopulate(id) on an Inflight entry makes a new empty page,
\* stores it in the entry's InflightFetch (where every waiter finds it) and
\* makes the entry Cached with that page; on a Cached entry or no entry it
\* leaves the map, the pages and the InflightFetches as they are. After it
\* the entry is not Inflight, so a second call changes nothing.
CancelPrepopulateEffect ==
  [][\A t \in Threads, id \in PageIds :
       cancel_prepopulate(t, id) =>
         /\ IF cached[id].st = "Inflight"
              THEN LET f == cached[id].ref
                       d == cached'[id].ref
                   IN /\ cached'[id].st = "Cached"
                      /\ d \in DOMAIN pages' \ DOMAIN pages
                      /\ pages'[d].data = 0
                      /\ fetches'[f] = d
                      /\ \A j \in PageIds \ {id} : cached'[j] = cached[j]
                      /\ \A g \in DOMAIN fetches \ {f} : fetches'[g] = fetches[g]
                      /\ \A q \in DOMAIN pages : pages'[q] = pages[q]
              ELSE cached' = cached /\ pages' = pages /\ fetches' = fetches
         /\ cached'[id].st # "Inflight"]_vars

\* C14, the case: a cancel made the entry Cached with its empty page while a
\* thread waits on the InflightFetch the entry held, which now holds that page.
CancelPrepopulateEffectWitness ==
  \E id \in PageIds, t \in Threads :
    /\ cached[id].st = "Cached"
    /\ pages[cached[id].ref].by = "cancel"
    /\ pc[t] = "wait" /\ th[t].id = id
    /\ fetches[th[t].f] = cached[id].ref

\* PageData d reads as zero in every slot: it has no buffer, or a buffer of zeros
ReadsAllZero(ps, d) ==
  ps[d].data = 0 \/ \A o \in 0..(PAGE_SIZE - 1) : buffer(ps[d].data)[o] = 0

\* thread t, in retrieve_sync with hint_fresh, takes its step at the entry
HintFreshStep(t) ==
  /\ pc[t] = "entry" /\ th[t].op = "retrieve_sync" /\ th[t].hint
  /\ pc'[t] # "entry"

HIGHEST_42 ==
  << 16, 65, 4, 16, 65, 4, 16, 65, 4, 16, 65, 4, 16, 65, 4, 16, 65, 4, 16, 65,
     4, 16, 65, 4, 16, 65, 4, 16, 65, 4, 16, 64 >>

\* bytes, read as a big-endian integer, exceeds HIGHEST_42
ExceedsHighest(bytes) ==
  \E k \in 1..ID_BYTES :
    bytes[k] > HIGHEST_42[k] /\ \A j \in 1..(k - 1) : bytes[j] = HIGHEST_42[j]

\* C16: decode succeeds on every 32-byte value that does not exceed
\* HIGHEST_42, and encoding the PageId it returns gives the same 32 bytes
\* again (byte 31 = 0b00000111 alone decodes to [6], which encodes to it).
EncodeOfDecode ==
  (decoded # NotCalled /\ ~ExceedsHighest(dec_arg)) =>
    /\ decoded.res = "Ok"
    /\ encoded.decoded # NoBytes => encoded.decoded = dec_arg

\* C17: for every PageId p of 0 to 42 limbs, decoding the bytes p.encode()
\* returned gives Ok(p).
DecodeOfEncode ==
  (encoded.pid # NoBytes /\ dec_arg = encoded.pid /\ decoded # NotCalled) =>
    decoded = Ok(pid)

\* C18: encode is injective: two distinct PageIds, those of 42 limbs
\* included, never encode to the same 32 bytes.
EncodeInjective ==
  (encoded.pid # NoBytes /\ encoded.pid2 # NoBytes /\ pid # pid2) =>
    encoded.pid # encoded.pid2

\* C19: decode returns InvalidPageIdBytes exactly for the bytes that exceed
\* HIGHEST_42; for all others it returns, and does not panic, a PageId of at
\* most 42 limbs, each at most 63; the all-zero bytes decode to the root.
DecodeRejectsAboveHighest ==
  decoded # NotCalled =>
    /\ decoded = InvalidPageIdBytes <=> ExceedsHighest(dec_arg)
    /\ ~ExceedsHighest(dec_arg) =>
         /\ decoded.res = "Ok"
         /\ Len(decoded.limbs) <= MAX_LIMBS
         /\ \A i \in 1..Len(decoded.limbs) : decoded.limbs[i] \in 0..MAX_CHILD_INDEX
    /\ (\A k \in 1..ID_BYTES : dec_arg[k] = 0) => decoded = Ok(ROOT_PAGE_ID)

\* the value just above HIGHEST_42 was given to decode and refused
DecodeRejectsAboveHighestWitness ==
  /\ decoded = InvalidPageIdBytes
  /\ dec_arg = [HIGHEST_42 EXCEPT ![ID_BYTES] = 65]

\* C20: decoding the integer made from the limbs l1..lk by shifting left by
\* 6 bits and adding the limb plus 1, limb after limb, returns the PageId
\* that child_page_id(l1), ..., child_page_id(lk) reach from the root, also
\* when limbs are 63.
DecodeAgreesWithPath ==
  (decoded # NotCalled /\ dec_arg = disambiguated(pid)) => decoded = Ok(pid)

\* the representation of a page id of 42 limbs, some of them 63 and the
\* first not, was decoded
DecodeAgreesWithPathWitness ==
  /\ decoded.res = "Ok"
  /\ dec_arg = disambiguated(pid)
  /\ Len(pid) = MAX_LIMBS
  /\ pid[1] = 16
  /\ pid[MAX_LIMBS] = MAX_CHILD_INDEX

\* C21: child_page_id succeeds on every PageId of fewer than 42 limbs, the
\* parent of the PageId it returns is the PageId it was called on, and the
\* parent of the root is the root.
ParentOfChild ==
  /\ (child # NotCalled /\ Len(pid) < MAX_LIMBS) => child.res = "Ok"
  /\ (parent.called /\ child.res = "Ok" /\ parent.of = child.limbs) => parent.ret = pid
  /\ (parent.called /\ parent.of = ROOT_PAGE_ID) => parent.ret = ROOT_PAGE_ID

\* the parent of a child of 42 limbs, whose limbs differ, was taken
ParentOfChildWitness ==
  /\ parent.called
  /\ child.res = "Ok"
  /\ parent.of = child.limbs
  /\ Len(child.limbs) = MAX_LIMBS
  /\ child.limbs[1] # child.limbs[MAX_LIMBS]

\* C22: child_page_id returns PageIdOverflow exactly when the PageId has 42
\* limbs already, so the 42 calls that lead down from the root succeed and
\* the 43rd fails; a call, failed or not, leaves the PageId it is made on
\* as it was, and a successful one returns it with the index appended.
ChildOverflowsAtDepth42 ==
  [][call_child =>
       /\ pid' = pid
       /\ child' = PageIdOverflow <=> Len(pid) = MAX_LIMBS
       /\ child'.res = "Ok" <=> Len(pid) < MAX_LIMBS
       /\ child'.res = "Ok" => child'.limbs = pid \o idx.ret]_vars

\* the 43rd call down a path failed
ChildOverflowsAtDepth42Witness ==
  /\ child = PageIdOverflow
  /\ Len(pid) = MAX_LIMBS
  /\ idx.ret # << >>

\* C23: ChildPageIndex::new(i) returns Some of i exactly when i <= 63, and
\* None for every i in 64..=255.
IndexNewBelow64 ==
  idx.called =>
    /\ idx.ret # << >> <=> idx.arg <= 63
    /\ idx.ret # << >> => idx.ret = << idx.arg >>
    /\ idx.arg \in 64..255 => idx.ret = << >>

\* new was given 63 and accepted it
IndexNewBelow64Witness ==
  /\ idx.called
  /\ idx.arg = 63
  /\ idx.ret = << 63 >>

\* the j-th group of 6 bits of a key path, the most significant first
sextet_of(key, j) ==
  LET b(n) == be_bit(key, UINT_BITS - DEPTH * j + n)
  IN b(0) + 2 * b(1) + 4 * b(2) + 8 * b(3) + 16 * b(4) + 32 * b(5)

\* the first k groups
sextets_of(key, k) == SubSeq([j \in 1..k |-> sextet_of(key, j)], 1, k)

\* C24: a PageIdsIterator yields the root first and then, as its k-th
\* following item, the PageId of the first k 6-bit groups of the key path;
\* it ends after the page of depth 42, 43 items in all, and does not panic.
IteratorYieldsPath ==
  /\ ~yielded.panic
  /\ yielded.n <= MAX_LIMBS + 1
  /\ yielded.ended => yielded.n = MAX_LIMBS + 1
  /\ (yielded.n >= 1 /\ ~yielded.ended) =>
       yielded.item = Ok(sextets_of(iter.key, yielded.n - 1))

\* the 43rd item, the page of depth 42 of a key path whose groups differ
IteratorYieldsPathWitness ==
  /\ yielded.n = MAX_LIMBS + 1
  /\ yielded.item.res = "Ok"
  /\ Len(yielded.item.limbs) = MAX_LIMBS
  /\ yielded.item.limbs[1] # yielded.item.limbs[2]
  /\ yielded.item.limbs[MAX_LIMBS] # 0

\* the slots that hold nodes, and the bits of the leaf bitfield
NodeSlots == 0..(NODES_PER_PAGE - 1)
LeafBits == 0..(SLOT_SIZE * 8 - 1)

\* C25: after set_node(i, n) with i < 126, on a page never written or not,
\* node(i) returns n and the leaf bit of i is 0; every other slot and every
\* other leaf bit is as before (so after set_leaf_data(10, ld), set_node(10, n)
\* leaves the second half of ld in slot 11 and the leaf bit of 11 set).
SetNodeFrame ==
  [][\A index \in SlotChoices, n \in NodeChoices :
       (set_node(index, n) /\ index < NODES_PER_PAGE) =>
         /\ node(pdata', index) = n
         /\ leaf_bit(pdata', index) = 0
         /\ \A j \in NodeSlots \ {index} : node(pdata', j) = node(pdata, j)
         /\ \A j \in LeafBits \ {index} : leaf_bit(pdata', j) = leaf_bit(pdata, j)]_vars

\* slot 10 holds a node and slot 11 the value hash of the leaf data that
\* was written at 10, with its leaf bit
SetNodeFrameWitness ==
  /\ node(pdata, 10) \in NodeChoices
  /\ leaf_bit(pdata, 10) = 0
  /\ node(pdata, 11) \in { ld.value_hash : ld \in LeafChoices }
  /\ leaf_bit(pdata, 11) = 1

\* C26: after set_leaf_data(k, ld) with k < 125 the leaf bits of k and k + 1
\* are 1, the 64 bytes of the slots k and k + 1 are the encoding of ld, and
\* every other slot and leaf bit is as before; with k >= 125 the call
\* aborts and the page is as before.
SetLeafDataEffect ==
  [][\A k \in SlotChoices, ld \in LeafChoices :
       set_leaf_data(k, ld) =>
         IF k < 125
           THEN /\ ~pd_aborted'
                /\ leaf_bit(pdata', k) = 1
                /\ leaf_bit(pdata', k + 1) = 1
                /\ node(pdata', k) \o node(pdata', k + 1) = encode_into(ld)
                /\ \A j \in NodeSlots \ {k, k + 1} : node(pdata', j) = node(pdata, j)
                /\ \A j \in LeafBits \ {k, k + 1} : leaf_bit(pdata', j) = leaf_bit(pdata, j)
           ELSE /\ pd_aborted'
                /\ pdata' = pdata]_vars

\* leaf data was written at the last slots that can hold it, 124 and 125
SetLeafDataEffectWitness ==
  /\ leaf_bit(pdata, 124) = 1
  /\ leaf_bit(pdata, 125) = 1
  /\ \E ld \in LeafChoices : node(pdata, 124) \o node(pdata, 125) = encode_into(ld)

\* C27: after clear_leaf_data(k) with k < 125, whatever calls came before,
\* the leaf bits of k and k + 1 are 0; a slot of the two whose bit was 1 is
\* all zero, and one whose bit was 0 holds what it held (a node written by
\* set_node stays).
ClearLeafDataEffect ==
  [][\A k \in SlotChoices :
       (clear_leaf_data(k) /\ k < 125) =>
         /\ leaf_bit(pdata', k) = 0
         /\ leaf_bit(pdata', k + 1) = 0
         /\ \A j \in {k, k + 1} :
              node(pdata', j) = IF leaf_bit(pdata, j) = 1 THEN zero_node ELSE node(pdata, j)]_vars

\* after three calls slot 10 is zero and slot 11 holds a node, both without
\* leaf bit: leaf data at 10, a node at 11, and the leaf data cleared
ClearLeafDataEffectWitness ==
  /\ pd_calls = 3
  /\ pdata # << >>
  /\ node(pdata, 10) = zero_node
  /\ node(pdata, 11) \in NodeChoices
  /\ leaf_bit(pdata, 10) = 0
  /\ leaf_bit(pdata, 11) = 0
  /\ node(pdata, 0) = zero_node

\* ------------------------------------------------ locks, pre-emption, unwrap
\* the InflightFetch f is completed by nobody any more: it has no page and no
\* entry of the map refers to it, and the task and the loader complete only
\* the fetch of the map's current entry
Orphaned(f) ==
  /\ fetches[f] = 0
  /\ \A id \in PageIds : cached[id] # Inflight(f)

\* the processes inside an eviction pass, which hold update_rwl for reading
Readers == {p \in Procs : pc[p] \in {"evict_pop", "evict_remove"}}

\* C28: lock discipline. No thread waits in InflightFetch::wait() or runs
\* load_page under a shard lock of the map, and so no interleaving of
\* retrieve_sync, prepopulate, cancel_prepopulate, fetch tasks, eviction passes
\* and start_update_phase reaches a deadlock: a thread in wait() waits for a
\* fetch that somebody can still complete, and a writer in update_rwl.write()
\* waits for readers that are still running.
NoDeadlock ==
  /\ \A t \in Threads : pc[t] = "wait" => ~Orphaned(th[t].f)
  /\ pc[Updater] = "write_wait" => (update_rwl.readers = 0 \/ Readers # {})

\* the InflightFetch f was completed by a pre-emption, of cancel_prepopulate
\* or of retrieve_sync(.., true)
Preempted(f) ==
  /\ f # 0
  /\ fetches[f] # 0
  /\ pages[fetches[f]].by \in {"cancel", "hint_fresh"}

\* C29: pre-emption wins over publication. A Cached entry keeps its PageData
\* for as long as it stays in the map, and a fetch task or a loader that
\* finishes load_page after its fetch was pre-empted leaves the map as it is
\* and completes no InflightFetch with what it loaded.
PreemptionWins ==
  [][/\ \A id \in PageIds :
          (cached[id].st = "Cached" /\ cached'[id].st = "Cached")
            => cached'[id] = cached[id]
     /\ \A w \in DOMAIN worker :
          (task_publish(w) /\ Preempted(worker[w].f))
            => (cached' = cached /\ fetches' = fetches)
     /\ \A t \in Threads :
          (retrieve_sync_publish(t) /\ Preempted(th[t].f))
            => (cached' = cached /\ fetches' = fetches)
  ]_vars

\* C30: when a fetch task of prepopulate(id) or the loader path of
\* retrieve_sync(id, false) comes back from load_page, the map still has an
\* entry for id, so the unwrap() after the load never panics; stated for the
\* runs in which no eviction has removed an Inflight entry.
EntryOutlivesLoad ==
  "evict_inflight" \notin panics =>
    /\ panics \cap {"task_unwrap", "loader_unwrap"} = {}
    /\ \A w \in DOMAIN worker : worker[w].pc = "publish" => cached[worker[w].id] # Vacant
    /\ \A t \in Threads : pc[t] = "publish" => cached[th[t].id] # Vacant

\* the task at the head of the pool's queue observes reference count 1 and
\* returns without calling load_page
task_skips(w) ==
  /\ task_start(w)
  /\ strong_count(Head(fetch_tp).f) = 1

\* C31: a fetch task skips load_page only when its fetch was pre-empted. When
\* the task observes reference count 1 on its InflightFetch and returns, no
\* entry of the map holds that InflightFetch, the InflightFetch has been
\* completed, and no caller is blocked waiting on it.
SkipOnlyWhenPreempted ==
  [][\A w \in DOMAIN worker :
       task_skips(w) =>
         LET f == Head(fetch_tp).f IN
         /\ \A id \in PageIds : cached[id] # Inflight(f)
         /\ fetches[f] # 0
         /\ \A t \in Threads : ~(pc[t] = "wait" /\ th[t].f = f)
  ]_vars

\* the worker threads that hold packet n
Holders(n) == io_workers.execute[n]

\* the places of the command channel that hold packet n
Queued(n) == Cardinality({k \in 1..Len(command_q) : command_q[k] = n})

\* the command of a CompleteIo is the command the packet was sent with, but
\* for the page a read has filled
OwnCommand(n, complete) ==
  [complete.command EXCEPT !.kind.page = 0] = IoPacket(n).command

\* C32: the I/O worker pool. Every packet the command channel accepted is in
\* the channel, in the hands of one worker, or executed once with one
\* CompleteIo sent on its completion_sender; that CompleteIo carries the
\* packet's own command and is Err exactly when the system call returned -1;
\* at most 16 accepted packets are queued, and no worker stops while a Sender
\* of the command channel is alive, whatever became of a completion channel.
IoWorkerPool ==
  /\ Len(command_q) <= MAX_IN_FLIGHT
  /\ io_workers.panicked = 0
  /\ io_workers.exited > 0 => ~tx_alive
  /\ \A n \in 1..accepted :
       /\ Queued(n) + Holders(n) + Len(sent_io[n]) = 1
       /\ Len(syscalls[n]) = Len(sent_io[n])
       /\ sent_io[n] # << >> =>
            /\ OwnCommand(n, sent_io[n][1])
            /\ sent_io[n][1].result = "Err" <=> syscalls[n][1] = -1

====
